---------------------------- MODULE Spec2Model ----------------------------
(***************************************************************************)
(* A model of the NSBall interaction core: the view controller that owns   *)
(* the ball (launch / dock / drag / scroll / physics-step queue), the drag *)
(* velocity tracker and the rectangle clamp.                               *)
(*                                                                         *)
(* Units.  Lengths are points (integers).  Time is counted in ticks of     *)
(* 1/30 s, so the drag tracker's 0.1 s window is 3 ticks.  A JavaScript    *)
(* number that results from a division is kept as an exact fraction        *)
(* [k |-> "num", n, d], or as "nan" / "inf" / "-inf" when the divisor is 0.*)
(*                                                                         *)
(* Optional values (ball?, dragState?, physicsBody = null) are sequences   *)
(* of length 0 or 1; the controller's ball is a ball id, 0 for undefined.  *)
(***************************************************************************)
EXTENDS Integers, Sequences, FiniteSets, TLC

\* ------------------------------------------------------------------ bounds
MaxBalls == 2        \* Ball.create calls in a run
MaxDocks == 2        \* dock() calls in a run
MaxTime == 3         \* last clock reading of a drag update, in ticks
ViewCols == 6        \* width of the view, in ball radii
ViewRows == 4        \* height of the view, in ball radii

\* ------------------------------------------------------- program constants
RADIUS == 100
LaunchStrength == 2000
EdgeDistance == 200
DragWindow == 3

\* ---------------------------------------------------------------- geometry
Pt(x, y) == [x |-> x, y |-> y]
CGPointZero == Pt(0, 0)
Rect(x, y, w, h) == [x |-> x, y |-> y, w |-> w, h |-> h]

CGRectGetMinX(r) == r.x
CGRectGetMaxX(r) == r.x + r.w
CGRectGetMinY(r) == r.y
CGRectGetMaxY(r) == r.y + r.h
CGRectGetMidX(r) == r.x + (r.w \div 2)
CGRectGetMidY(r) == r.y + (r.h \div 2)

ViewW == ViewCols * RADIUS
ViewH == ViewRows * RADIUS
\* this.view.bounds; the ball window is sized to the screen's frame.
ViewBounds == Rect(0, 0, ViewW, ViewH)
ScreenFrame == Rect(0, 0, ViewW, ViewH)

\* A clamp that forgets the far edges (C10 must tell it from constrainRect).
constrainRect_nearOnly(r, bounds) ==
  Rect(IF CGRectGetMinX(r) < CGRectGetMinX(bounds)
       THEN CGRectGetMinX(bounds) ELSE r.x,
       IF CGRectGetMinY(r) < CGRectGetMinY(bounds)
       THEN CGRectGetMinY(bounds) ELSE r.y,
       r.w, r.h)

\* A clamp that leaves the y axis alone (C11 must tell it from constrainRect).
constrainRect_xOnly(r, bounds) ==
  LET x1 == IF CGRectGetMinX(r) < CGRectGetMinX(bounds)
            THEN CGRectGetMinX(bounds) ELSE r.x
      x2 == IF x1 + r.w > CGRectGetMaxX(bounds)
            THEN CGRectGetMaxX(bounds) - r.w ELSE x1
  IN  Rect(x2, r.y, r.w, r.h)

\* constrainRect(rect, bounds): each edge in turn, x then y.
constrainRect(r, bounds) ==
  LET x1 == IF CGRectGetMinX(r) < CGRectGetMinX(bounds)
            THEN CGRectGetMinX(bounds) ELSE r.x
      x2 == IF x1 + r.w > CGRectGetMaxX(bounds)
            THEN CGRectGetMaxX(bounds) - r.w ELSE x1
      y1 == IF CGRectGetMinY(r) < CGRectGetMinY(bounds)
            THEN CGRectGetMinY(bounds) ELSE r.y
      y2 == IF y1 + r.h > CGRectGetMaxY(bounds)
            THEN CGRectGetMaxY(bounds) - r.h ELSE y1
  IN  Rect(x2, y2, r.w, r.h)

\* ------------------------------------------------------ JavaScript numbers
Num(n) == [k |-> "num", n |-> n, d |-> 1]
\* a / b in IEEE arithmetic, b >= 0.
JSDiv(a, b) ==
  IF b = 0
  THEN [k |-> IF a = 0 THEN "nan" ELSE IF a > 0 THEN "inf" ELSE "-inf",
        n |-> 0, d |-> 1]
  ELSE [k |-> "num", n |-> a, d |-> b]
ZeroVelocity == [x |-> Num(0), y |-> Num(0)]

\* A test that lets every velocity through (C8 must tell it from
\* CGPointGetLengthPositive).
CGPointGetLengthPositive_always(p) == TRUE

\* CGPointGetLength(point) > 0, as the callers test it.
CGPointGetLengthPositive(p) ==
  IF p.x.k = "nan" \/ p.y.k = "nan" THEN FALSE
  ELSE IF p.x.k # "num" \/ p.y.k # "num" THEN TRUE
  ELSE p.x.n # 0 \/ p.y.n # 0

\* -------------------------------------------------------- VelocityTracker
\* samples: sequence of [time, pos], newest last.
filteredSamples(samples, time) ==
  SelectSeq(samples, LAMBDA s : time - s.time < DragWindow)

VelocityTrackerAdd(samples, pos, time) ==
  filteredSamples(Append(samples, [time |-> time, pos |-> pos]), time)

\* A tracker that subtracts the wrong way round (C9 must tell it from
\* VelocityTrackerVelocity).
VelocityTrackerVelocity_reversed(samples, time) ==
  LET fs == filteredSamples(samples, time) IN
  IF Len(fs) < 2 THEN ZeroVelocity
  ELSE [x |-> JSDiv(fs[1].pos.x - fs[Len(fs)].pos.x,
                    fs[Len(fs)].time - fs[1].time),
        y |-> JSDiv(fs[1].pos.y - fs[Len(fs)].pos.y,
                    fs[Len(fs)].time - fs[1].time)]

\* get velocity(): (last - first) / (last.time - first.time) over the samples
\* inside the window, zero when fewer than two are left.
VelocityTrackerVelocity(samples, time) ==
  LET fs == filteredSamples(samples, time) IN
  IF Len(fs) < 2 THEN ZeroVelocity
  ELSE LET first == fs[1]
           last == fs[Len(fs)]
           t == last.time - first.time
       IN  [x |-> JSDiv(last.pos.x - first.pos.x, t),
            y |-> JSDiv(last.pos.y - first.pos.y, t)]

\* -------------------------------------------------------------- DragState
\* new DragState(ballStart, mouseStart, currentMousePos).  shared: mouseStart
\* and currentMousePos are one object; zero: currentMousePos is the runtime's
\* CGPointZero object; events: history of the gesture (the event that began
\* it, then its updates), which the program does not read.
NewDragState(ballStart, mouseStart, currentMousePos, event) ==
  [ballStart |-> ballStart, mouseStart |-> mouseStart,
   currentMousePos |-> currentMousePos, samples |-> <<>>,
   shared |-> FALSE, zero |-> FALSE, events |-> <<event>>]

currentBallPos(ds) ==
  Pt(ds.ballStart.x + (ds.currentMousePos.x - ds.mouseStart.x),
     ds.ballStart.y + (ds.currentMousePos.y - ds.mouseStart.y))

\* ------------------------------------------------------------------ state
VARIABLES
  now,                  \* CACurrentMediaTime(), in ticks since the gesture began
  balls,                \* every Ball created so far, by id (index)
  ball,                 \* ViewController._ball: a ball id, 0 = undefined
  dragState,            \* ViewController._dragState: <<>> or <<DragState>>
  tempMouseCatcherRect, \* <<>> or <<rect>>
  physicsQueue,         \* deferred callbacks: <<[ball, impulse]>>
  actions,              \* move actions running with a completion block
  docks,                \* history: every dock() call, by number
  lastOp,               \* history: what the handler that ran last reports
  rectCall,             \* <<>> or <<the last constrainRect call>>
  dragTracker,          \* view_controller.ts VelocityTracker.samples
  springTracker,        \* motion.ts VelocityTracker.samples
  velocityRead,         \* <<>> or <<the last velocity read from a tracker>>
  springs,              \* every SpringAnimation constructed, by id (index)
  driver,               \* CALayerDriver.instance
  solves,               \* every animate() call, by id (index)
  remapCall,            \* <<>> or <<the last remap call>>
  sounds,               \* ViewController.sounds: the NSSound players
  mainQueue,            \* NSOperationQueue.mainQueue: blocks not yet run
  contacts,             \* history: the contacts reported so far
  windowOrigin,         \* origin of the ball window's frame, on the screen
  pointZero,            \* the runtime's CGPointZero: <<>> when every read of
                        \* the constant yields a struct of its own, <<p>>
                        \* when it is one object, whose fields now read p
  nodes,                \* the child nodes of the controller's ball, and
                        \* its _beingDragged
  timers,               \* the NSTimer blocks scheduled and not yet fired
  ballVisible           \* AppDelegate._ballVisible

\* The state of util.ts's and motion.ts's objects.
motionVars == <<rectCall, dragTracker, springTracker, velocityRead, springs,
                driver, solves, remapCall>>

\* The collision sounds and what is queued to play them.
soundVars == <<sounds, mainQueue, contacts>>

\* What a ball draws, its timers, and the app delegate's flag.
appVars == <<nodes, timers, ballVisible>>

\* What a call of Ball.animateDrag() may change, and what it leaves alone of
\* motionVars and appVars.
dragVars == <<springs, driver, solves, nodes>>
stillVars == <<rectCall, dragTracker, springTracker, velocityRead, remapCall,
               timers, ballVisible>>

vars == <<now, balls, ball, dragState, tempMouseCatcherRect, physicsQueue,
          actions, docks, lastOp, rectCall, dragTracker, springTracker,
          velocityRead, springs, driver, solves, remapCall, sounds,
          mainQueue, contacts, windowOrigin, pointZero, nodes, timers,
          ballVisible>>

\* What launch(), onMouseUp() and the end of a scroll report in lastOp.
\* b: the ball launch() created, or the controller's ball at the gesture end
\* (0: none); fs: the tracker's samples inside the window when the velocity
\* was read; vel: the velocity read; imp: the impulse applied to the ball
\* (<<>>: none).
Op(name, b, fs, vel, imp) ==
  [op |-> name, b |-> b, fs |-> fs, vel |-> vel, imp |-> imp]
\* The other handlers report nothing.
NoReport == Op("", 0, <<>>, ZeroVelocity, <<>>)

\* ------------------------------------------------------------------- Ball
BallRect(bl) == Rect(bl.position.x - bl.radius, bl.position.y - bl.radius,
                     bl.radius * 2, bl.radius * 2)

\* Ball.create(radius, pos).  cbRuns / launchImpulses: history (how often the
\* ball's queued launch callback was invoked / applied its impulse).
BallCreate(radius, pos) ==
  [radius |-> radius, position |-> pos, inScene |-> FALSE,
   physicsBody |-> <<[isDynamic |-> TRUE, affectedByGravity |-> TRUE,
                      velocity |-> "zero"]>>,
   cbRuns |-> 0, launchImpulses |-> 0]

\* A destroy() that leaves the ball in the scene (C39 must tell it from
\* BallDestroy).
BallDestroy_inScene(bl) == [bl EXCEPT !.physicsBody = <<>>]

\* Ball.destroy(): removeFromParent(), physicsBody = null.
BallDestroy(bl) == [bl EXCEPT !.inScene = FALSE, !.physicsBody = <<>>]

\* SKPhysicsBody.applyImpulse: a body that is not dynamic ignores impulses.
applyImpulse(bl, impulseNonZero) ==
  IF bl.physicsBody[1].isDynamic /\ impulseNonZero
  THEN [bl EXCEPT !.physicsBody[1].velocity = "nonzero"]
  ELSE bl

\* SKNode.containsPoint(p), taken as the ball's bounding square.
containsPoint(bl, p) ==
  /\ CGRectGetMinX(BallRect(bl)) <= p.x /\ p.x < CGRectGetMaxX(BallRect(bl))
  /\ CGRectGetMinY(BallRect(bl)) <= p.y /\ p.y < CGRectGetMaxY(BallRect(bl))

\* ---------------------------------------------- ViewController: setters
\* A setter that does not destroy the previous ball (C3 must tell it from
\* SetBall).
SetBall_keep(bs, cur, value) ==
  IF value # 0 THEN [bs EXCEPT ![value].inScene = TRUE] ELSE bs

\* set ball(value): destroy the previous ball, store, add the new to the scene.
\* value = 0 stands for undefined.
SetBall(bs, cur, value) ==
  LET d == IF cur # 0 THEN [bs EXCEPT ![cur] = BallDestroy(bs[cur])] ELSE bs
  IN  IF value # 0 THEN [d EXCEPT ![value].inScene = TRUE] ELSE d

\* set dragState(value): the balls after the setter's side effects on the
\* controller's current ball.
SetDragState(bs, cur, value) ==
  IF Len(value) = 1 /\ cur # 0
  THEN LET pos == currentBallPos(value[1])
           r == bs[cur].radius
           constrainedRect ==
             constrainRect(Rect(pos.x - r, pos.y - r, r * 2, r * 2), ViewBounds)
       IN  [bs EXCEPT ![cur].physicsBody[1].isDynamic = FALSE,
                      ![cur].position = Pt(CGRectGetMidX(constrainedRect),
                                           CGRectGetMidY(constrainedRect))]
  ELSE IF cur # 0
  THEN [bs EXCEPT ![cur].physicsBody[1].isDynamic = TRUE]
  ELSE bs

\* ---------------------------------------------------- ViewController.launch
\* An impulse that counts the distance 200 as near (C6 must tell it from
\* LaunchImpulse).
LaunchImpulse_inclusive(r, frame) ==
  [dx |-> IF CGRectGetMidX(r) - CGRectGetMinX(frame) <= EdgeDistance
          THEN LaunchStrength
          ELSE IF CGRectGetMaxX(frame) - CGRectGetMidX(r) <= EdgeDistance
          THEN -LaunchStrength ELSE 0,
   dy |-> IF CGRectGetMidY(r) - CGRectGetMinY(frame) <= EdgeDistance
          THEN LaunchStrength ELSE 0]

\* The impulse launch() computes for a rect on a screen with frame `frame`.
LaunchImpulse(r, frame) ==
  LET distFromLeft == CGRectGetMidX(r) - CGRectGetMinX(frame)
      distFromRight == CGRectGetMaxX(frame) - CGRectGetMidX(r)
      distFromBottom == CGRectGetMidY(r) - CGRectGetMinY(frame)
  IN  [dx |-> IF distFromLeft < EdgeDistance THEN LaunchStrength
              ELSE IF distFromRight < EdgeDistance THEN -LaunchStrength
              ELSE 0,
       dy |-> IF distFromBottom < EdgeDistance THEN LaunchStrength ELSE 0]

\* The body of launch(rect) once a screen with frame `frame` is at hand:
\* create the ball, store it, queue the impulse.  The queued closure captures
\* the new ball and the impulse (r and frame are kept beside them: the inputs
\* the impulse was computed from).
launchOn(r, frame) ==
  /\ Len(balls) < MaxBalls
  /\ LET id == Len(balls) + 1
         created == BallCreate(RADIUS, Pt(CGRectGetMidX(r), CGRectGetMidY(r)))
     IN  /\ balls' = SetBall(Append(balls, created), ball, id)
         /\ ball' = id
         /\ physicsQueue' =
              Append(physicsQueue,
                     [ball |-> id, impulse |-> LaunchImpulse(r, frame),
                      r |-> r, frame |-> frame])
         /\ UNCHANGED <<motionVars, soundVars, nodes, timers, windowOrigin, pointZero>>
         /\ lastOp' = Op("launch", id, <<>>, ZeroVelocity, <<>>)
  /\ UNCHANGED <<now, dragState, tempMouseCatcherRect, actions, docks>>

\* The same, called by a caller that does not touch the app delegate's flag.
LaunchOn(r, frame) == launchOn(r, frame) /\ UNCHANGED ballVisible

\* A launch that falls back on the main screen (C7 must tell it from Launch).
Launch_onMain(r, screen) ==
  LaunchOn(r, IF Len(screen) = 0 THEN ScreenFrame ELSE screen[1])

\* launch(rect); screen is this.view.window?.screen: <<>> or <<its frame>>.
launch(r, screen) ==
  IF Len(screen) = 0
  THEN /\ UNCHANGED <<motionVars, soundVars, nodes, timers, windowOrigin, pointZero>>
       /\ lastOp' = Op("launch", 0, <<>>, ZeroVelocity, <<>>)
       /\ UNCHANGED <<now, balls, ball, dragState, tempMouseCatcherRect,
                      physicsQueue, actions, docks>>
  ELSE launchOn(r, screen[1])

\* launch(rect), called by a caller that does not touch the app delegate's
\* flag.
Launch(r, screen) == launch(r, screen) /\ UNCHANGED ballVisible

\* ------------------------------------------------------ ViewController.dock
\* A dock that forgets its callback (C1 must tell it from onComplete).
onComplete_never(ds, d) == ds

\* onComplete(), the callback of dock call number d, is invoked.
onComplete(ds, d) == [ds EXCEPT ![d].calls = @ + 1]

\* A dock that keeps the ball's velocity (C2 must tell it from DockedBody).
DockedBody_moving ==
  [isDynamic |-> FALSE, affectedByGravity |-> FALSE, velocity |-> "nonzero"]

\* The body of a ball as dock() leaves it.
DockedBody ==
  [isDynamic |-> FALSE, affectedByGravity |-> FALSE, velocity |-> "zero"]

\* dock(rect, onComplete).  The call is entered in docks with the ball it
\* found (0: none) and the number of times its onComplete has run.
dock(r) ==
  /\ Len(docks) < MaxDocks
  /\ IF ball = 0
     THEN /\ docks' = onComplete(Append(docks, [ball |-> 0, calls |-> 0]),
                                 Len(docks) + 1)
          /\ UNCHANGED <<balls, actions>>
     ELSE /\ balls' = IF Len(balls[ball].physicsBody) = 1
                      THEN [balls EXCEPT ![ball].physicsBody[1] = DockedBody]
                      ELSE balls
          /\ actions' = actions \cup
               {[ball |-> ball, dock |-> Len(docks) + 1,
                 target |-> Pt(CGRectGetMidX(r), CGRectGetMidY(r))]}
          /\ docks' = Append(docks, [ball |-> ball, calls |-> 0])
  /\ UNCHANGED <<now, ball, dragState, tempMouseCatcherRect, physicsQueue>>
  /\ UNCHANGED <<motionVars, soundVars, nodes, timers, windowOrigin, pointZero>>
  /\ lastOp' = NoReport

\* dock(rect, onComplete) with a callback that leaves the app delegate's
\* flag alone.
Dock(r) == dock(r) /\ UNCHANGED ballVisible

\* The move action `a` finishes and its completion block runs: this.ball =
\* undefined, then onComplete().  The scene evaluates the actions of the nodes
\* in its tree only, so the ball of the action is still in the scene.
dockCompletion(a) ==
  /\ a \in actions
  /\ balls[a.ball].inScene
  /\ actions' = actions \ {a}
  /\ balls' = SetBall([balls EXCEPT ![a.ball].position = a.target], ball, 0)
  /\ ball' = 0
  /\ docks' = onComplete(docks, a.dock)
  /\ UNCHANGED <<now, dragState, tempMouseCatcherRect, physicsQueue>>
  /\ UNCHANGED <<motionVars, soundVars, nodes, timers, windowOrigin, pointZero>>
  /\ lastOp' = NoReport

\* The same, the callback leaving the app delegate's flag alone.
DockComplete(a) == dockCompletion(a) /\ UNCHANGED ballVisible

\* ------------------------------ ViewController.didSimulatePhysicsForScene
\* Where the physics engine may have moved a dynamic ball to in one step.
SimPositions == {Pt(RADIUS, RADIUS)}

\* The balls after the engine has integrated one step: only a body that is
\* dynamic and in the scene moves.
Simulated(bs, cur) ==
  IF cur # 0 /\ bs[cur].inScene /\ bs[cur].physicsBody[1].isDynamic
  THEN {[bs EXCEPT ![cur].position = p, ![cur].physicsBody[1].velocity = v] :
          p \in SimPositions \cup {bs[cur].position}, v \in {"zero", "nonzero"}}
  ELSE {bs}

\* for (const cb of queue) cb(): each callback is ball.physicsBody
\* .applyImpulse(impulse); on a destroyed ball physicsBody is null, the call
\* throws and the loop is left.
RECURSIVE RunCallbacks(_, _)
RunCallbacks(bs, queue) ==
  IF Len(queue) = 0 THEN bs
  ELSE LET cb == Head(queue)
           b == cb.ball
           invoked == [bs EXCEPT ![b].cbRuns = @ + 1]
       IN  IF Len(bs[b].physicsBody) = 0
           THEN invoked
           ELSE RunCallbacks(
                  [invoked EXCEPT ![b] =
                     [applyImpulse(@, cb.impulse.dx # 0 \/ cb.impulse.dy # 0)
                        EXCEPT !.launchImpulses = @ + 1]],
                  Tail(queue))

\* One physics step: the engine integrates, then calls
\* didSimulatePhysicsForScene, which swaps the queue for an empty one and
\* runs the callbacks it held.
PhysicsStep ==
  \E sim \in Simulated(balls, ball) :
    /\ physicsQueue' = <<>>
    /\ balls' = RunCallbacks(sim, physicsQueue)
    /\ UNCHANGED <<now, ball, dragState, tempMouseCatcherRect, actions, docks>>
    /\ UNCHANGED <<motionVars, soundVars, appVars, windowOrigin, pointZero>>
    /\ lastOp' = NoReport

\* ------------------------------------------- ViewController: mouse handlers
\* The clock is read in ticks since the current gesture began (a gesture's
\* samples are the only timestamps kept, so only differences matter); a
\* handler that runs dt ticks after the last one reads:
ClockAfter(dt) == now + dt

\* onMouseDown(), with mouseScenePos = p, but for what the dragState setter
\* does to the springs of the ball.
MouseDown(p) ==
  /\ IF ball # 0 /\ containsPoint(balls[ball], p)
     THEN dragState' = <<[NewDragState(balls[ball].position, p, p, "down")
                            EXCEPT !.shared = TRUE]>>
     ELSE dragState' = <<>>
  /\ now' = 0
  /\ balls' = SetDragState(balls, ball, dragState')
  /\ UNCHANGED <<ball, tempMouseCatcherRect, physicsQueue, actions, docks>>
  /\ UNCHANGED <<stillVars, soundVars, windowOrigin, pointZero>>
  /\ lastOp' = NoReport

\* onMouseDown(), with the dragState setter of part_003, which ends where
\* the ball has been positioned.
onMouseDown(p) == MouseDown(p) /\ UNCHANGED dragVars

\* onMouseDrag(), with mouseScenePos = p, but for what the dragState setter
\* does to the springs of the ball.
MouseDrag(p, dt) ==
  /\ IF Len(dragState) = 1
     THEN /\ ClockAfter(dt) <= MaxTime
          /\ now' = ClockAfter(dt)
          /\ dragState' =
               <<[dragState[1] EXCEPT
                    !.currentMousePos = p,
                    !.shared = FALSE,
                    !.zero = FALSE,
                    !.samples = VelocityTrackerAdd(@, p, now'),
                    !.events = Append(@, "drag")]>>
          /\ balls' = SetDragState(balls, ball, dragState')
     ELSE /\ dt = 1
          /\ UNCHANGED <<now, dragState, balls>>
  /\ UNCHANGED <<ball, tempMouseCatcherRect, physicsQueue, actions, docks>>
  /\ UNCHANGED <<stillVars, soundVars, windowOrigin, pointZero>>
  /\ lastOp' = NoReport

onMouseDrag(p, dt) == MouseDrag(p, dt) /\ UNCHANGED dragVars

\* What a read of CGPointZero yields.
ReadPointZero == IF pointZero = <<>> THEN CGPointZero ELSE pointZero[1]

\* The end of a gesture, as onMouseUp and onScroll Ended / Cancelled both do
\* it: read the tracker's velocity, drop the drag state, apply the velocity
\* as an impulse when its length is positive.
Release(name, dt) ==
  LET zero == [x |-> Num(ReadPointZero.x), y |-> Num(ReadPointZero.y)]
      velocity ==
        IF /\ Len(dragState) = 1
           /\ Len(filteredSamples(dragState[1].samples, ClockAfter(dt))) >= 2
        THEN VelocityTrackerVelocity(dragState[1].samples, ClockAfter(dt))
        ELSE zero
      released == SetDragState(balls, ball, <<>>)
      hit == /\ CGPointGetLengthPositive(velocity)
             /\ ball # 0
             /\ Len(released[ball].physicsBody) = 1
  IN  /\ Len(dragState) = 0 => dt = 1
      /\ now' = 0
      /\ dragState' = <<>>
      /\ balls' = IF hit
                  THEN [released EXCEPT ![ball] = applyImpulse(@, TRUE)]
                  ELSE released
      /\ UNCHANGED <<stillVars, soundVars, windowOrigin, pointZero>>
      /\ lastOp' = Op(name, ball,
                      IF Len(dragState) = 1
                      THEN filteredSamples(dragState[1].samples, ClockAfter(dt))
                      ELSE <<>>,
                      velocity, IF hit THEN <<velocity>> ELSE <<>>)
      /\ UNCHANGED <<ball, physicsQueue, actions, docks>>

\* onMouseUp(), but for what the dragState setter does to the springs.
MouseUp(dt) ==
  /\ Release("mouseUp", dt)
  /\ UNCHANGED tempMouseCatcherRect

onMouseUp(dt) == MouseUp(dt) /\ UNCHANGED dragVars

\* window.convertRectToScreen(rect): from the window's coordinates to the
\* screen's, the window's frame beginning at windowOrigin.
convertRectToScreen(rect) ==
  Rect(rect.x + windowOrigin.x, rect.y + windowOrigin.y, rect.w, rect.h)

\* get mouseCatcherRect, for the balls bs: the stored rect if there is one,
\* else the ball's, converted to the screen's coordinates.
mouseCatcherRect(bs) ==
  LET rect == IF Len(tempMouseCatcherRect) = 1 THEN tempMouseCatcherRect
              ELSE IF ball # 0 THEN <<BallRect(bs[ball])>>
              ELSE <<>>
  IN  IF Len(rect) = 1 THEN <<convertRectToScreen(rect[1])>> ELSE <<>>

\* onScroll(event), event.phase = Began, but for what the dragState setter
\* does to the springs of the ball.
ScrollBegan ==
  /\ IF ball # 0
     THEN /\ now' = 0
          /\ dragState' =
               <<[NewDragState(balls[ball].position, ReadPointZero,
                               ReadPointZero, "began")
                    EXCEPT !.shared = pointZero # <<>>,
                           !.zero = pointZero # <<>>]>>
          /\ balls' = SetDragState(balls, ball, dragState')
          /\ tempMouseCatcherRect' = mouseCatcherRect(balls')
     ELSE UNCHANGED <<now, dragState, balls, tempMouseCatcherRect>>
  /\ UNCHANGED <<ball, physicsQueue, actions, docks>>
  /\ UNCHANGED <<stillVars, soundVars, windowOrigin, pointZero>>
  /\ lastOp' = NoReport

\* onScroll(event), event.phase = Began.
onScrollBegan == ScrollBegan /\ UNCHANGED dragVars

\* onScroll(event), event.phase = Changed, with the event's scrolling deltas:
\* currentMousePos is changed in place, and with it whatever else is the same
\* object.  But for what the dragState setter does to the springs.
ScrollChanged(scrollingDeltaX, scrollingDeltaY, dt) ==
  /\ IF Len(dragState) = 1
     THEN /\ ClockAfter(dt) <= MaxTime
          /\ now' = ClockAfter(dt)
          /\ LET pos == Pt(dragState[1].currentMousePos.x + scrollingDeltaX,
                           dragState[1].currentMousePos.y - scrollingDeltaY)
             IN  /\ dragState' =
                       <<[dragState[1] EXCEPT
                            !.currentMousePos = pos,
                            !.mouseStart = IF dragState[1].shared THEN pos
                                           ELSE @,
                            !.samples = VelocityTrackerAdd(@, pos, now'),
                            !.events = Append(@, "changed")]>>
                 /\ pointZero' = IF dragState[1].zero THEN <<pos>>
                                 ELSE pointZero
          /\ balls' = SetDragState(balls, ball, dragState')
     ELSE /\ dt = 1
          /\ UNCHANGED <<now, dragState, balls, pointZero>>
  /\ UNCHANGED <<ball, tempMouseCatcherRect, physicsQueue, actions, docks>>
  /\ UNCHANGED <<stillVars, soundVars, windowOrigin>>
  /\ lastOp' = NoReport

onScrollChanged(scrollingDeltaX, scrollingDeltaY, dt) ==
  ScrollChanged(scrollingDeltaX, scrollingDeltaY, dt) /\ UNCHANGED dragVars

\* onScroll(event), event.phase = Ended or Cancelled, but for what the
\* dragState setter does to the springs.
ScrollEnded(dt) ==
  /\ Release("scrollEnded", dt)
  /\ tempMouseCatcherRect' = <<>>

\* onScroll(event), event.phase = Ended or Cancelled.
onScrollEnded(dt) == ScrollEnded(dt) /\ UNCHANGED dragVars

\* ------------------------------------------------- motion state at launch
\* new CALayerDriver(): no ticker, no display link.  tickers: the ids of the
\* solves whose update function is in the set; live: history, the display
\* links created and not yet invalidated.
NewDriver == [tickers |-> {}, displayLink |-> FALSE, live |-> 0]

\* The players as viewDidLoad leaves them: volume 0 and play() called, so
\* each is playing until it reaches its end.  plays: history, the play()
\* calls on the player.
SoundNames == <<"pop_01", "pop_02", "pop_03">>

NewSound == [isPlaying |-> TRUE, volume |-> Num(0), plays |-> 1]

\* No contact reported, nothing queued.  count: history, the contacts so
\* far; last: history, <<>> or <<the latest contact's impulse and strength>>.
SoundInit ==
  /\ sounds = [i \in 1..Len(SoundNames) |-> NewSound]
  /\ mainQueue = <<>>
  /\ contacts = [count |-> 0, last |-> <<>>]

\* The nodes Ball.create() leaves: SpriteKit's defaults (scale 1, position
\* (0, 0)) but for the shadow sprite's alpha, which create() sets to 0.
NewNodes ==
  [imgContainer |-> [xScale |-> Num(1), y |-> Num(0)],
   imgNode      |-> [scale |-> Num(1)],
   shadowSprite |-> [y |-> Num(0), alpha |-> Num(0)],
   beingDragged |-> FALSE]

\* No timer scheduled, the dock icon not clicked yet.
AppInit ==
  /\ nodes = NewNodes
  /\ timers = <<>>
  /\ ballVisible = FALSE

\* No rect constrained, no sample taken, no spring constructed.
MotionInit ==
  /\ rectCall = <<>>
  /\ dragTracker = <<>>
  /\ springTracker = <<>>
  /\ velocityRead = <<>>
  /\ springs = <<>>
  /\ driver = NewDriver
  /\ solves = <<>>
  /\ remapCall = <<>>

\* ------------------------------------------------------------ environment
\* The rect of the dock icon that is clicked: near the bottom left corner of
\* the screen.
IconRect(cx, cy) == Rect(cx - RADIUS \div 2, cy - RADIUS \div 2, RADIUS, RADIUS)
LaunchRects == {IconRect(RADIUS, RADIUS)}
Screens == {<<>>, <<ScreenFrame>>}
\* Where the pointer is seen: on the resting ball, and in the far corner.
MousePoints == {Pt(RADIUS, RADIUS), Pt(ViewW, ViewH)}
ScrollDeltas == {Pt(ViewW - RADIUS, RADIUS - ViewH)}
ClockSteps == {1}

Init ==
  /\ now = 0
  /\ balls = <<>>
  /\ ball = 0
  /\ dragState = <<>>
  /\ tempMouseCatcherRect = <<>>
  /\ physicsQueue = <<>>
  /\ actions = {}
  /\ docks = <<>>
  /\ lastOp = NoReport
  /\ MotionInit
  /\ SoundInit
  /\ AppInit
  /\ windowOrigin = CGPointZero
  /\ pointZero = <<>>

\* The controller under launch, dock, the engine's callbacks and the mouse.
Next ==
  \/ \E r \in LaunchRects, screen \in Screens : Launch(r, screen)
  \/ \E r \in LaunchRects : Dock(r)
  \/ \E a \in actions : DockComplete(a)
  \/ PhysicsStep
  \/ \E p \in MousePoints : onMouseDown(p)
  \/ \E p \in MousePoints, dt \in ClockSteps : onMouseDrag(p, dt)
  \/ \E dt \in ClockSteps : onMouseUp(dt)

Spec == Init /\ [][Next]_vars

\* The controller under launch, dock, the engine's callbacks, the scroll
\* wheel and clicks (mouse-down, mouse-up).
NextInput ==
  \/ \E r \in LaunchRects, screen \in Screens : Launch(r, screen)
  \/ \E r \in LaunchRects : Dock(r)
  \/ \E a \in actions : DockComplete(a)
  \/ PhysicsStep
  \/ \E p \in MousePoints : onMouseDown(p)
  \/ \E dt \in ClockSteps : onMouseUp(dt)
  \/ onScrollBegan
  \/ \E d \in ScrollDeltas, dt \in ClockSteps : onScrollChanged(d.x, d.y, dt)
  \/ \E dt \in ClockSteps : onScrollEnded(dt)

SpecInput == Init /\ [][NextInput]_vars

\* ------------------------------------------------- launch, over many rects
\* Rect centres at one, two and three radii from the edges of the screen.
LaunchXs == {RADIUS, 2 * RADIUS, 3 * RADIUS, ViewW - 2 * RADIUS, ViewW - RADIUS}
LaunchYs == {RADIUS, 2 * RADIUS, 3 * RADIUS}
WideLaunchRects == {IconRect(cx, cy) : cx \in LaunchXs, cy \in LaunchYs}
\* No screen, the screen of the view, a screen three radii wide, and a screen
\* two radii wide that begins half a radius to the right of the origin.
NarrowScreenFrame == Rect(0, 0, 3 * RADIUS, ViewH)
OffsetScreenFrame == Rect(RADIUS \div 2, 0, 2 * RADIUS, ViewH)
WideScreens == {<<>>, <<ScreenFrame>>, <<NarrowScreenFrame>>,
                <<OffsetScreenFrame>>}

NextLaunch ==
  \/ \E r \in WideLaunchRects, screen \in WideScreens : Launch(r, screen)
  \/ PhysicsStep

SpecLaunch == Init /\ [][NextLaunch]_vars

\* ------------------------------------------ gestures on one launched ball
\* Where the ball is when the gestures start: resting in a corner, in the
\* middle of the view, and half below the bottom edge.
DragStarts == {Pt(RADIUS, RADIUS), Pt(ViewW \div 2, ViewH \div 2),
               Pt(RADIUS, RADIUS \div 2)}
\* Where the pointer is seen (a corner ball is under the first), and what a
\* scroll event adds.
DragPoints == {Pt(RADIUS, RADIUS), Pt(ViewW, ViewH)}
DragDeltas == {Pt(ViewW - RADIUS, RADIUS - ViewH)}
DragSteps == 1..DragWindow

\* A ball has been launched and its callback has run.
InitDrag ==
  /\ now = 0
  /\ \E p \in DragStarts :
       balls = <<[BallCreate(RADIUS, p) EXCEPT !.inScene = TRUE, !.cbRuns = 1,
                                               !.launchImpulses = 1]>>
  /\ ball = 1
  /\ dragState = <<>>
  /\ tempMouseCatcherRect = <<>>
  /\ physicsQueue = <<>>
  /\ actions = {}
  /\ docks = <<>>
  /\ lastOp = NoReport
  /\ MotionInit
  /\ SoundInit
  /\ AppInit
  /\ windowOrigin = CGPointZero
  /\ pointZero = <<>>

NextDrag ==
  \/ PhysicsStep
  \/ \E p \in DragPoints : onMouseDown(p)
  \/ \E p \in DragPoints, dt \in DragSteps : onMouseDrag(p, dt)
  \/ \E dt \in DragSteps : onMouseUp(dt)
  \/ onScrollBegan
  \/ \E d \in DragDeltas, dt \in DragSteps : onScrollChanged(d.x, d.y, dt)
  \/ \E dt \in DragSteps : onScrollEnded(dt)

SpecDrag == InitDrag /\ [][NextDrag]_vars

\* --------------------------------------------------- constrainRect, alone
\* The controller's own state, which util.ts and motion.ts never touch.
controllerVars == <<balls, ball, dragState, tempMouseCatcherRect, physicsQueue,
                    actions, docks, lastOp, sounds, mainQueue, contacts,
                    windowOrigin, pointZero, nodes, timers, ballVisible>>

\* No ball launched, no gesture under way, the ball window on the primary
\* screen.
ControllerInit ==
  /\ windowOrigin = CGPointZero
  /\ pointZero = <<>>
  /\ balls = <<>>
  /\ ball = 0
  /\ dragState = <<>>
  /\ tempMouseCatcherRect = <<>>
  /\ physicsQueue = <<>>
  /\ actions = {}
  /\ docks = <<>>
  /\ lastOp = NoReport
  /\ SoundInit
  /\ AppInit

MaxCoord == 3        \* largest origin and size of a rect handed to constrainRect
BoundsSize == 2      \* width and height of the bounds handed to constrainRect
MaxCalls == 2        \* constrainRect calls on one rect

RectOrigins == -1..MaxCoord
RectSizes == 1..MaxCoord
RectInputs == {Rect(x, y, w, h) : x \in RectOrigins, y \in {-1, 0, MaxCoord},
                                  w \in RectSizes, h \in {1, MaxCoord}}
BoundsInputs == {Rect(0, 0, BoundsSize, BoundsSize),
                 Rect(1, 1, BoundsSize, BoundsSize)}

\* A rect and the bounds to hold it in.  given: history, the rect as it was
\* handed over; r: the rect object, which constrainRect changes in place and
\* returns; outs: history, what each call returned.
InitRect ==
  /\ now = 0
  /\ ControllerInit
  /\ \E r \in RectInputs, b \in BoundsInputs :
       rectCall = <<[given |-> r, r |-> r, bounds |-> b, outs |-> <<>>]>>
  /\ dragTracker = <<>>
  /\ springTracker = <<>>
  /\ velocityRead = <<>>
  /\ springs = <<>>
  /\ driver = NewDriver
  /\ solves = <<>>
  /\ remapCall = <<>>

\* r = constrainRect(r, bounds).
ConstrainRect ==
  /\ Len(rectCall) = 1
  /\ Len(rectCall[1].outs) < MaxCalls
  /\ LET out == constrainRect(rectCall[1].r, rectCall[1].bounds)
     IN  rectCall' = <<[rectCall[1] EXCEPT !.r = out, !.outs = Append(@, out)]>>
  /\ UNCHANGED <<now, dragTracker, springTracker, velocityRead, springs,
                 driver, solves, remapCall>>
  /\ UNCHANGED controllerVars

NextRect == ConstrainRect

SpecRect == InitRect /\ [][NextRect]_vars

\* ------------------------------------------- motion.ts VelocityTracker
LookBack == 2        \* lookBack = 1.0 / 15 s, in ticks of 1/30 s

\* A tracker that never drops a sample (C13 must tell it from trim).
trim_none(samples, time) == samples

\* trim(): drop samples from the front while they are older than lookBack.
\* samples: sequence of [time, value], newest last.
RECURSIVE trim(_, _)
trim(samples, time) ==
  IF Len(samples) > 0 /\ time - samples[1].time > LookBack
  THEN trim(Tail(samples), time)
  ELSE samples

\* addSample(val), at the clock reading time.
addSample(samples, val, time) ==
  trim(Append(samples, [time |-> time, value |-> val]), time)

\* get velocity(), at the clock reading time, on the trimmed samples:
\* (last - first) / (now - first.time) when that time is positive, else 0.
trackerVelocity(trimmed, time) ==
  IF Len(trimmed) > 0 /\ time - trimmed[1].time > 0
  THEN JSDiv(trimmed[Len(trimmed)].value - trimmed[1].value,
             time - trimmed[1].time)
  ELSE Num(0)

\* ------------------------------------------------- the two trackers, alone
MaxClock == 4        \* last clock reading, in ticks
MaxSamples == 2      \* samples a tracker holds before the next add

TrackPoints == {Pt(0, 0), Pt(1, 2)}
TrackValues == {0, 1}

\* What a velocity read reports.  window: the samples inside the window at
\* the read; velocity: the value returned.
Read(tracker, window, v) ==
  [tracker |-> tracker, time |-> now, window |-> window, velocity |-> v]

InitTrack ==
  /\ now = 0
  /\ ControllerInit
  /\ MotionInit

\* The clock moves on by one tick.
Elapse ==
  /\ now < MaxClock
  /\ now' = now + 1
  /\ velocityRead' = <<>>
  /\ UNCHANGED <<remapCall, rectCall, dragTracker, springTracker, springs, driver, solves>>
  /\ UNCHANGED controllerVars

\* view_controller.ts: velocityTracker.add(pos).
TrackerAdd(pos) ==
  /\ Len(dragTracker) < MaxSamples
  /\ dragTracker' = VelocityTrackerAdd(dragTracker, pos, now)
  /\ velocityRead' = <<>>
  /\ UNCHANGED <<now, remapCall, rectCall, springTracker, springs, driver, solves>>
  /\ UNCHANGED controllerVars

\* view_controller.ts: velocityTracker.velocity.
TrackerVelocity ==
  /\ velocityRead' = <<Read("drag", filteredSamples(dragTracker, now),
                            VelocityTrackerVelocity(dragTracker, now))>>
  /\ UNCHANGED <<now, remapCall, rectCall, dragTracker, springTracker, springs, driver,
                 solves>>
  /\ UNCHANGED controllerVars

\* motion.ts: tracker.addSample(val).
SpringTrackerAdd(val) ==
  /\ Len(springTracker) < MaxSamples
  /\ springTracker' = addSample(springTracker, val, now)
  /\ velocityRead' = <<>>
  /\ UNCHANGED <<now, remapCall, rectCall, dragTracker, springs, driver, solves>>
  /\ UNCHANGED controllerVars

\* motion.ts: tracker.velocity, which trims first.
SpringTrackerVelocity ==
  /\ springTracker' = trim(springTracker, now)
  /\ velocityRead' = <<Read("spring", springTracker',
                            trackerVelocity(springTracker', now))>>
  /\ UNCHANGED <<now, remapCall, rectCall, dragTracker, springs, driver, solves>>
  /\ UNCHANGED controllerVars

NextTrack ==
  \/ Elapse
  \/ \E p \in TrackPoints : TrackerAdd(p)
  \/ TrackerVelocity
  \/ \E v \in TrackValues : SpringTrackerAdd(v)
  \/ SpringTrackerVelocity

SpecTrack == InitTrack /\ [][NextTrack]_vars

\* ------------------------------------------------------------ CALayerDriver
\* A driver that never starts its display link (C20 must tell it from
\* driverStart).
driverStart_never(d) == d

\* CALayerDriver.start().
driverStart(d) ==
  IF d.displayLink THEN d
  ELSE [d EXCEPT !.displayLink = TRUE, !.live = @ + 1]

\* CALayerDriver.stop().
driverStop(d) ==
  IF ~d.displayLink THEN d
  ELSE [d EXCEPT !.displayLink = FALSE, !.live = @ - 1]

\* CALayerDriver.driver(update).start(), update being the ticker of solve id.
tickerStart(d, id) ==
  LET added == [d EXCEPT !.tickers = @ \cup {id}]
  IN  IF Cardinality(added.tickers) = 1 THEN driverStart(added) ELSE added

\* A ticker that cannot be taken out of the set (C16 must tell it from
\* tickerStop).
tickerStop_never(d, id) == d

\* CALayerDriver.driver(update).stop().
tickerStop(d, id) ==
  IF id \notin d.tickers THEN d
  ELSE LET deleted == [d EXCEPT !.tickers = @ \ {id}]
       IN  IF Cardinality(deleted.tickers) = 0 THEN driverStop(deleted)
           ELSE deleted

\* ---------------------------------------------------------- SpringAnimation
\* The objects of motion.ts: m.springs, m.driver, m.solves.
Motion(sp, d, so) == [springs |-> sp, driver |-> d, solves |-> so]

\* calls: history, the last two things that happened to spring s, of "new",
\* "set", "start", "stop" (the calls made on it), "update" and "complete"
\* (a tick ran its solve, which went on or came to rest).
Log(m, s, call) ==
  [m EXCEPT !.springs[s].calls =
              IF Len(@) = 0 THEN <<call>> ELSE <<@[Len(@)], call>>]

\* The solves of spring s whose ticker is in m's driver.
SubscribedIn(m, s) == {id \in m.driver.tickers : m.solves[id].spring = s}

\* The solves in ids have been found running by a start().
Replaced(m, ids) ==
  [m EXCEPT !.solves = [id \in 1..Len(@) |->
                          IF id \in ids THEN [@[id] EXCEPT !.replaced = TRUE]
                          ELSE @[id]]]

\* A stop() that invalidates the display link whatever else is running (C18
\* must tell it from stop).
stop_driver(m, s) ==
  [m EXCEPT !.springs[s].targetValue = <<>>,
            !.springs[s].animating = FALSE,
            !.driver = [@ EXCEPT !.tickers = @ \ SubscribedIn(m, s),
                                 !.displayLink = FALSE, !.live = 0]]

\* A stop() that leaves the spring as it is (C18 and C19 must tell it from
\* stop).
stop_nothing(m, s) == m

\* A stop() that forgets to cancel the solve (C17 must tell it from stop).
stop_flagsOnly(m, s) ==
  [m EXCEPT !.springs[s].targetValue = <<>>, !.springs[s].animating = FALSE]

\* A stop() that cancels the solve only when no other ticker is subscribed
\* (C33 must tell it from stop).
stop_alone(m, s) ==
  LET f == m.springs[s].stopFunction
  IN  [m EXCEPT !.springs[s].targetValue = <<>>,
                !.springs[s].animating = FALSE,
                !.driver = IF f # 0 /\ @.tickers \subseteq {f}
                           THEN tickerStop(@, f) ELSE @]

\* stop(), on spring s.  stopFunction: 0 (undefined) or the id of the solve
\* whose stop it is; the function returned by animate() stops that solve's
\* ticker.
stop(m, s) ==
  LET f == m.springs[s].stopFunction
  IN  [m EXCEPT !.springs[s].targetValue = <<>>,
                !.springs[s].animating = FALSE,
                !.driver = IF f # 0 THEN tickerStop(@, f) ELSE @]

\* A setter that records nothing in the tracker (C31 must tell it from
\* setValue).
setValue_noSample(m, s, value, time) ==
  stop([m EXCEPT !.springs[s].value = value], s)

\* set value(value), on spring s at the clock reading time.
setValue(m, s, value, time) ==
  LET stopped == stop([m EXCEPT !.springs[s].value = value], s)
  IN  [stopped EXCEPT !.springs[s].tracker = addSample(@, value, time)]

\* new SpringAnimation(initialValue, scale), at the clock reading time.
NewSpringAnimation(m, initialValue, scale, time) ==
  LET fields == [animating |-> FALSE, tracker |-> <<>>, value |-> 0,
                 targetValue |-> <<>>, velocity |-> <<>>, stopFunction |-> 0,
                 scale |-> scale, calls |-> <<>>]
  IN  setValue([m EXCEPT !.springs = Append(@, fields)], Len(m.springs) + 1,
               initialValue, time)

SolveTicks == 2      \* ticks a spring solve takes to come to rest

\* An animate() whose solver never reports done on its first update (C24
\* must tell it from animate).
animate_slow(m, s, from, to, velocity) ==
  LET id == Len(m.solves) + 1
      solve == [spring |-> s, from |-> from, to |-> to, step |-> 0,
                ticks |-> SolveTicks, speed |-> velocity, replaced |-> FALSE]
  IN  [m EXCEPT !.solves = Append(@, solve),
                !.driver = tickerStart(@, id)]

\* animate({type: "spring", from, to, velocity, driver, ...}) of spring s: a
\* new solve, whose ticker is started at once.  step: the updates run so far;
\* ticks: the update at which the solver reports done, the first one when the
\* spring is at rest on its target already; replaced: history, a start() on
\* its spring found this solve's ticker in the set; speed: the velocity the
\* solver has reached, the one passed in until the first update.
animate(m, s, from, to, velocity) ==
  LET id == Len(m.solves) + 1
      solve == [spring |-> s, from |-> from, to |-> to, step |-> 0,
                ticks |-> IF from = to /\ velocity = 0 THEN 1 ELSE SolveTicks,
                speed |-> velocity, replaced |-> FALSE]
  IN  [m EXCEPT !.solves = Append(@, solve),
                !.driver = tickerStart(@, id)]

\* start(targetValue, velocity), on spring s.
start(m, s, targetValue, velocity) ==
  LET stopped == stop(m, s)
      sp == [stopped.springs[s] EXCEPT !.animating = TRUE,
                                       !.targetValue = <<targetValue>>,
                                       !.velocity = <<velocity>>]
      begun == animate([stopped EXCEPT !.springs[s] = sp], s,
                       sp.value * sp.scale, targetValue * sp.scale,
                       velocity * sp.scale)
  IN  [begun EXCEPT !.springs[s].stopFunction = Len(begun.solves)]

\* get velocity, on spring s at the clock reading time: the velocity given
\* to start() while animating, else the tracker's.
getVelocity(m, s, time) ==
  LET sp == m.springs[s]
  IN  IF sp.animating
      THEN IF Len(sp.velocity) = 1 THEN Num(sp.velocity[1]) ELSE Num(0)
      ELSE trackerVelocity(trim(sp.tracker, time), time)

\* onComplete of spring s.
onSolveComplete(m, s) == stop([m EXCEPT !.springs[s].stopFunction = 0], s)

\* The update function of solve id, called with a tick's delta: the solver's
\* next value goes to onUpdate, which stores value / scale; a solve that is
\* done stops its ticker and calls onComplete.  Short of its rest the spring
\* has been pulled towards its target for one more step, and is at rest when
\* done.
update(m, id) ==
  LET so == m.solves[id]
      s == so.spring
      done == so.step + 1 >= so.ticks
      latest == IF done THEN so.to ELSE so.from
      updated == [m EXCEPT !.solves[id].step = @ + 1,
                           !.solves[id].speed = IF done THEN 0
                                                ELSE @ + (so.to - so.from),
                           !.springs[s].value = latest \div m.springs[s].scale]
  IN  IF done
      THEN Log(onSolveComplete([updated EXCEPT !.driver = tickerStop(@, id)],
                               s), s, "complete")
      ELSE Log(updated, s, "update")

\* tick(): every ticker in the set, in the order they were added, unless it
\* has left the set by the time its turn comes.
RECURSIVE tickFrom(_, _)
tickFrom(m, id) ==
  IF id > Len(m.solves) THEN m
  ELSE tickFrom(IF id \in m.driver.tickers THEN update(m, id) ELSE m, id + 1)

\* ------------------------------------------------------ the springs, alone
MaxSolves == 2       \* start() calls in a run

\* ball.ts: dragScale = new SpringAnimation(1, 1000, ...), and squish alike.
BallSprings == <<"dragScale", "squish">>
InitialValue == 1
SpringScale == 1000

SetValues == {0}
TargetValues == {2}
StartVelocities == {0}

\* The three objects as they are now.
Now == Motion(springs, driver, solves)

\* The three objects become m.
Becomes(m) ==
  /\ springs' = m.springs
  /\ driver' = m.driver
  /\ solves' = m.solves
  /\ UNCHANGED <<now, remapCall, rectCall, dragTracker, springTracker, velocityRead>>
  /\ UNCHANGED controllerVars

\* The first n springs of a ball, constructed at the clock reading time.
RECURSIVE Constructed(_, _)
Constructed(n, time) ==
  IF n = 0 THEN Motion(<<>>, NewDriver, <<>>)
  ELSE Log(NewSpringAnimation(Constructed(n - 1, time), InitialValue,
                              SpringScale, time), n, "new")

\* A ball's springs have been constructed.
InitSpring ==
  /\ now = 0
  /\ ControllerInit
  /\ rectCall = <<>>
  /\ dragTracker = <<>>
  /\ springTracker = <<>>
  /\ velocityRead = <<>>
  /\ remapCall = <<>>
  /\ LET m == Constructed(Len(BallSprings), now)
     IN  springs = m.springs /\ driver = m.driver /\ solves = m.solves

SpringSetValue(s, value) ==
  /\ Len(springs[s].tracker) < MaxSamples
  /\ Becomes(Log(setValue(Now, s, value, now), s, "set"))

SpringStart(s, targetValue, velocity) ==
  /\ Len(solves) < MaxSolves
  /\ Becomes(Log(Replaced(start(Now, s, targetValue, velocity),
                          SubscribedIn(Now, s)), s, "start"))

SpringStop(s) == Becomes(Log(stop(Now, s), s, "stop"))

\* The display link calls tick().
Tick ==
  /\ driver.displayLink
  /\ Becomes(tickFrom(Now, 1))

NextSpring ==
  \/ \E s \in 1..Len(springs), v \in SetValues : SpringSetValue(s, v)
  \/ \E s \in 1..Len(springs), t \in TargetValues, v \in StartVelocities :
       SpringStart(s, t, v)
  \/ \E s \in 1..Len(springs) : SpringStop(s)
  \/ Tick

SpecSpring == InitSpring /\ [][NextSpring]_vars

\* The display link calls tick() on every frame for as long as it runs.
SpecSpringLive == SpecSpring /\ WF_vars(Tick)

\* ------------------------------------------------------- util.ts remap
\* Fractions in lowest terms with a positive denominator, so that equal
\* numbers are equal records.
Abs(n) == IF n < 0 THEN -n ELSE n

RECURSIVE GCD(_, _)
GCD(a, b) == IF b = 0 THEN a ELSE GCD(b, a % b)

Frac(n, d) ==
  LET g == GCD(Abs(n), Abs(d))
  IN  [k |-> "num", n |-> (IF d < 0 THEN -n ELSE n) \div g, d |-> Abs(d) \div g]

Special(kind) == [k |-> kind, n |-> 0, d |-> 1]

FracAdd(p, q) == Frac(p.n * q.d + q.n * p.d, p.d * q.d)
FracSub(p, q) == Frac(p.n * q.d - q.n * p.d, p.d * q.d)
FracMul(p, q) == Frac(p.n * q.n, p.d * q.d)
FracLess(p, q) == p.n * q.d < q.n * p.d

\* p / q in IEEE arithmetic.
FracDiv(p, q) ==
  IF q.n # 0 THEN Frac(p.n * q.d, p.d * q.n)
  ELSE IF p.n = 0 THEN Special("nan")
  ELSE IF p.n > 0 THEN Special("inf") ELSE Special("-inf")

\* value * range, value possibly not finite.
JSMul(value, range) ==
  IF value.k = "num" THEN FracMul(value, range)
  ELSE IF value.k = "nan" \/ range.n = 0 THEN Special("nan")
  ELSE IF (value.k = "inf") = (range.n > 0) THEN Special("inf")
  ELSE Special("-inf")

\* rangeStart + product, product possibly not finite.
JSAdd(rangeStart, product) ==
  IF product.k = "num" THEN FracAdd(rangeStart, product) ELSE product

\* Math.max(v, lo) and Math.min(v, hi), lo and hi finite.
MathMax(v, lo) ==
  IF v.k = "nan" \/ v.k = "inf" THEN v
  ELSE IF v.k = "-inf" THEN lo
  ELSE IF FracLess(v, lo) THEN lo ELSE v

MathMin(v, hi) ==
  IF v.k = "nan" \/ v.k = "-inf" THEN v
  ELSE IF v.k = "inf" THEN hi
  ELSE IF FracLess(hi, v) THEN hi ELSE v

\* A remap that never clamps (C23 must tell it from remap).
remap_unclamped(x, domainStart, domainEnd, rangeStart, rangeEnd, clamp) ==
  LET domain == FracSub(domainEnd, domainStart)
      range  == FracSub(rangeEnd, rangeStart)
      value  == FracDiv(FracSub(x, domainStart), domain)
  IN  JSAdd(rangeStart, JSMul(value, range))

\* A remap that clamps to the domain's end whatever x is (C21 must tell it
\* from remap).
remap_top(x, domainStart, domainEnd, rangeStart, rangeEnd, clamp) == rangeEnd

\* remap(x, domainStart, domainEnd, rangeStart, rangeEnd, clamp).
remap(x, domainStart, domainEnd, rangeStart, rangeEnd, clamp) ==
  LET domain == FracSub(domainEnd, domainStart)
      range  == FracSub(rangeEnd, rangeStart)
      value  == FracDiv(FracSub(x, domainStart), domain)
      result == JSAdd(rangeStart, JSMul(value, range))
  IN  IF clamp
      THEN IF FracLess(rangeStart, rangeEnd)
           THEN MathMin(MathMax(result, rangeStart), rangeEnd)
           ELSE MathMin(MathMax(result, rangeEnd), rangeStart)
      ELSE result

RemapSteps == 8      \* x runs over -50, 0, 50, ...: RemapSteps values
RemapXs == {Num(50 * (i - 2)) : i \in 1..RemapSteps}
RemapDomains == {<<Num(0), Num(200)>>, <<Num(200), Num(0)>>,
                 <<Num(100), Num(100)>>}
RemapRanges == {<<Num(1), Num(0)>>, <<Num(0), Num(1)>>, <<Num(0), Frac(1, 2)>>,
                <<Num(1), Num(1)>>}

\* A remap call about to be made.  out: <<>> or <<what the call returned>>.
InitRemap ==
  /\ now = 0
  /\ ControllerInit
  /\ rectCall = <<>>
  /\ dragTracker = <<>>
  /\ springTracker = <<>>
  /\ velocityRead = <<>>
  /\ springs = <<>>
  /\ driver = NewDriver
  /\ solves = <<>>
  /\ \E x \in RemapXs, dm \in RemapDomains, rg \in RemapRanges,
        clamp \in BOOLEAN :
       remapCall = <<[x |-> x, domainStart |-> dm[1], domainEnd |-> dm[2],
                      rangeStart |-> rg[1], rangeEnd |-> rg[2],
                      clamp |-> clamp, out |-> <<>>]>>

\* out = remap(x, domainStart, domainEnd, rangeStart, rangeEnd, clamp).
Remap ==
  /\ Len(remapCall) = 1
  /\ remapCall[1].out = <<>>
  /\ LET c == remapCall[1]
     IN  remapCall' = <<[c EXCEPT !.out = <<remap(c.x, c.domainStart,
                           c.domainEnd, c.rangeStart, c.rangeEnd, c.clamp)>>]>>
  /\ UNCHANGED <<now, rectCall, dragTracker, springTracker, velocityRead,
                 springs, driver, solves>>
  /\ UNCHANGED controllerVars

NextRemap == Remap

SpecRemap == InitRemap /\ [][NextRemap]_vars

\* ------------------------------------------ view_controller.ts contacts
minImpulse == 1000
maxImpulse == 2000

\* Every player counts as usable (C22 must tell it from soundsUsable).
soundsUsable_all(sds) == DOMAIN sds

\* sounds.filter((sound) => !sound.isPlaying), as indices.
soundsUsable(sds) == {i \in DOMAIN sds : ~sds[i].isPlaying}

collisionStrength(impulse) ==
  remap(Num(impulse), Num(minImpulse), Num(maxImpulse), Num(0), Frac(1, 2),
        TRUE)

\* collisionStrength <= 0 (false for NaN).
NotPositive(q) == q.k = "-inf" \/ (q.k = "num" /\ q.n <= 0)

MaxContacts == 3     \* contacts the physics world reports
ContactImpulses == {500, 1000, 1500, 2000, 3000}

\* didBeginContact(contact): the strength of the contact, and a block on the
\* main queue when it is positive.
didBeginContact(impulse) ==
  /\ contacts.count < MaxContacts
  /\ LET strength == collisionStrength(impulse)
     IN  /\ contacts' = [count |-> contacts.count + 1,
                         last  |-> <<[impulse |-> impulse,
                                      strength |-> strength]>>]
         /\ mainQueue' = IF NotPositive(strength) THEN mainQueue
                         ELSE Append(mainQueue, [strength |-> strength])
  /\ UNCHANGED <<now, windowOrigin, pointZero, balls, ball, dragState,
                 tempMouseCatcherRect, appVars,
                 physicsQueue, actions, docks, lastOp, sounds>>
  /\ UNCHANGED motionVars

\* The main queue runs its oldest block: one of the players that are not
\* playing, if there is one, gets the volume and is played.
RunBlock ==
  /\ mainQueue # <<>>
  /\ mainQueue' = Tail(mainQueue)
  /\ LET usable == soundsUsable(sounds)
     IN  IF usable = {} THEN sounds' = sounds
         ELSE \E randomSound \in usable :
                sounds' = [sounds EXCEPT ![randomSound] =
                             [isPlaying |-> TRUE,
                              volume    |-> Head(mainQueue).strength,
                              plays     |-> @.plays + 1]]
  /\ UNCHANGED <<now, windowOrigin, pointZero, balls, ball, dragState,
                 tempMouseCatcherRect, appVars,
                 physicsQueue, actions, docks, lastOp, contacts>>
  /\ UNCHANGED motionVars

\* A player reaches the end of its sound.
SoundFinished(i) ==
  /\ sounds[i].isPlaying
  /\ sounds' = [sounds EXCEPT ![i].isPlaying = FALSE]
  /\ UNCHANGED <<now, windowOrigin, pointZero, balls, ball, dragState,
                 tempMouseCatcherRect, appVars,
                 physicsQueue, actions, docks, lastOp, mainQueue, contacts>>
  /\ UNCHANGED motionVars

InitContact ==
  /\ now = 0
  /\ ControllerInit
  /\ MotionInit

NextContact ==
  \/ \E impulse \in ContactImpulses : didBeginContact(impulse)
  \/ RunBlock
  \/ \E i \in DOMAIN sounds : SoundFinished(i)

SpecContact == InitContact /\ [][NextContact]_vars

\* ------------------------------------------- scroll gestures on one ball
\* Where the ball window's frame begins: on the primary screen, and on a
\* screen to its right (updateWindowSize gives the window its screen's frame).
WindowOrigins == {CGPointZero, Pt(ViewW, 0)}
\* What a scroll event adds.
ScrollSteps == {Pt(RADIUS, RADIUS), Pt(-RADIUS, 2 * RADIUS)}
MaxReach == 4        \* radii the scrolled offset stays within, either way
InReach(p) ==
  /\ -MaxReach * RADIUS <= p.x /\ p.x <= MaxReach * RADIUS
  /\ -MaxReach * RADIUS <= p.y /\ p.y <= MaxReach * RADIUS

\* No ball, or a ball that has been launched and whose callback has run.
InitScroll ==
  /\ now = 0
  /\ \/ balls = <<>> /\ ball = 0
     \/ /\ \E p \in DragStarts :
             balls = <<[BallCreate(RADIUS, p) EXCEPT !.inScene = TRUE,
                                                     !.cbRuns = 1,
                                                     !.launchImpulses = 1]>>
        /\ ball = 1
  /\ dragState = <<>>
  /\ tempMouseCatcherRect = <<>>
  /\ physicsQueue = <<>>
  /\ actions = {}
  /\ docks = <<>>
  /\ lastOp = NoReport
  /\ MotionInit
  /\ SoundInit
  /\ AppInit
  /\ windowOrigin \in WindowOrigins
  /\ pointZero \in {<<>>, <<CGPointZero>>}

\* The phases of a gesture come in order: no Began between a Began and its
\* Ended or Cancelled.
NextScroll ==
  \/ Len(tempMouseCatcherRect) = 0 /\ onScrollBegan
  \/ \E d \in ScrollSteps, dt \in ClockSteps :
       /\ onScrollChanged(d.x, d.y, dt)
       /\ Len(dragState') = 1 => InReach(dragState'[1].currentMousePos)
  \/ \E dt \in ClockSteps : onScrollEnded(dt)
  \/ PhysicsStep

SpecScroll == InitScroll /\ [][NextScroll]_vars

\* ============================================================ Ball, drawn
\* The ball's two springs hold their values in hundredths: 100 is the 1 they
\* are constructed with, 105 the 1.05 of a drag, 80 the 0.8 of a full squish.
Unit == 100
\* The springs of the ball, in the order ball.ts constructs them.
dragScale == 1
squish == 2

\* The value of spring s, as a number.
SpringValue(m, s) == Frac(m.springs[s].value, Unit)
\* The number q, in hundredths.
Hundredths(q) == (q.n * Unit) \div q.d

\* Ball.update(), on the nodes nd of ball bl whose springs are in m: the
\* shadow goes under the ball and fades with its height, the container's
\* offset is computed from the x scale the container has, and then the
\* squish is stored as the x scale and the drag scale as the image's scale.
\* 0.3 is taken as 3/10.
BallUpdate(nd, bl, m) ==
  LET distFromBottom == bl.position.y - bl.radius
      yDelta == FracDiv(FracMul(FracSub(Num(0),
                                        FracSub(Num(1), nd.imgContainer.xScale)),
                                Num(bl.radius)), Num(2))
  IN  [nd EXCEPT !.shadowSprite =
                   [y |-> FracSub(Frac(bl.radius * 3, 10), Num(bl.position.y)),
                    alpha |-> remap(Num(distFromBottom), Num(0), Num(200),
                                    Num(1), Num(0), TRUE)],
                 !.imgContainer = [xScale |-> SpringValue(m, squish),
                                   y |-> yDelta],
                 !.imgNode.scale = SpringValue(m, dragScale)]

\* What didCollide(strength, normal) passes to squish.start().
SquishTarget(strength) == remap(strength, Num(0), Num(1), Num(1), Frac(4, 5), TRUE)
SquishVelocity(strength) ==
  remap(strength, Num(0), Num(1), Num(-5), Num(-10), TRUE)

\* didCollide(strength, normal): the squish spring is started, and a timer
\* is scheduled whose block starts it again towards 1.  (The rotation of the
\* image towards the normal is left out: no spring and no timer reads it.)
didCollide(m, tm, strength) ==
  [m  |-> start(m, squish, Hundredths(SquishTarget(strength)),
                Hundredths(SquishVelocity(strength))),
   tm |-> Append(tm, [velocity |-> Hundredths(SquishVelocity(strength))])]

\* A timer block that restarts the squish from rest (C35 must tell it from
\* timerBlock).
timerBlock_rest(m, t) == start(m, squish, Unit, 0)

\* The block of a didCollide timer: this.squish.start(1, velocity).
timerBlock(m, t) == start(m, squish, Unit, t.velocity)

\* animateDrag(beingDragged), at the clock reading time.
animateDrag(nd, m, beingDragged, time) ==
  LET v == getVelocity(m, dragScale, time)
  IN  [nd |-> [nd EXCEPT !.beingDragged = beingDragged],
       m  |-> IF nd.beingDragged = beingDragged THEN m
              ELSE start(m, dragScale,
                         IF beingDragged THEN Hundredths(Frac(105, 100))
                         ELSE Unit,
                         v.n \div v.d)]

MaxBallSolves == 3   \* animate() calls made on one ball
CollisionStrengths == {Frac(1, 2), Num(1)}

\* A ball has been launched and its launch callback has run: it is in the
\* scene with its two springs constructed at 1.
InitBall ==
  /\ now = 0
  /\ windowOrigin = CGPointZero
  /\ pointZero = <<>>
  /\ balls = <<[BallCreate(RADIUS, Pt(RADIUS, RADIUS)) EXCEPT
                  !.inScene = TRUE, !.cbRuns = 1, !.launchImpulses = 1]>>
  /\ ball = 1
  /\ dragState = <<>>
  /\ tempMouseCatcherRect = <<>>
  /\ physicsQueue = <<>>
  /\ actions = {}
  /\ docks = <<>>
  /\ lastOp = NoReport
  /\ SoundInit
  /\ nodes = NewNodes
  /\ timers = <<>>
  /\ ballVisible = TRUE
  /\ rectCall = <<>>
  /\ dragTracker = <<>>
  /\ springTracker = <<>>
  /\ velocityRead = <<>>
  /\ remapCall = <<>>
  /\ LET m == Log(NewSpringAnimation(
                    Log(NewSpringAnimation(Motion(<<>>, NewDriver, <<>>),
                                           Unit, SpringScale, now),
                        dragScale, "new"),
                    Unit, SpringScale, now), squish, "new")
     IN  springs = m.springs /\ driver = m.driver /\ solves = m.solves

\* The ball's springs and nodes become m and nd, its timers tm.
BallBecomes(m, nd, tm) ==
  /\ springs' = m.springs
  /\ driver' = m.driver
  /\ solves' = m.solves
  /\ nodes' = nd
  /\ timers' = tm
  /\ UNCHANGED <<now, remapCall, rectCall, dragTracker, springTracker,
                 velocityRead, ballVisible, windowOrigin, pointZero>>
  /\ UNCHANGED <<balls, ball, dragState, tempMouseCatcherRect, physicsQueue,
                 actions, docks, lastOp, soundVars>>

\* didFinishUpdateForScene: this.ball?.update().
didFinishUpdateForScene ==
  /\ ball # 0
  /\ BallBecomes(Now, BallUpdate(nodes, balls[ball], Now), timers)

\* didCollide is called on ball 1, which the caller may hold after the
\* controller has let go of it.
DidCollide(strength) ==
  /\ Len(solves) + Len(timers) + 2 <= MaxBallSolves
  /\ LET c == didCollide(Now, timers, strength)
     IN  BallBecomes(Log(Replaced(c.m, SubscribedIn(Now, squish)),
                         squish, "start"), nodes, c.tm)

\* The timer scheduled first fires: timers of one interval fire in the order
\* they were scheduled in.
TimerFire ==
  /\ Len(timers) > 0
  /\ BallBecomes(Log(Replaced(timerBlock(Now, Head(timers)),
                              SubscribedIn(Now, squish)), squish, "start"),
                 nodes, Tail(timers))

\* animateDrag is called on ball 1.
AnimateDrag(beingDragged) ==
  /\ Len(solves) + Len(timers) + 1 <= MaxBallSolves
  /\ LET a == animateDrag(nodes, Now, beingDragged, now)
     IN  BallBecomes(IF nodes.beingDragged = beingDragged THEN a.m
                     ELSE Log(Replaced(a.m, SubscribedIn(Now, dragScale)),
                              dragScale, "start"),
                     a.nd, timers)

\* The last line of the dragState setter in its final form,
\* this.ball?.animateDrag(!!value), after a handler that has set dragState.
DragAnimated ==
  IF ball # 0
  THEN LET beingDragged == Len(dragState') = 1
           a == animateDrag(nodes, Now, beingDragged, now')
       IN  /\ nodes.beingDragged # beingDragged =>
                Len(solves) + Len(timers) + 1 <= MaxBallSolves
           /\ nodes' = a.nd
           /\ LET m == IF nodes.beingDragged = beingDragged THEN a.m
                       ELSE Log(Replaced(a.m, SubscribedIn(Now, dragScale)),
                                dragScale, "start")
              IN  springs' = m.springs /\ driver' = m.driver
                                       /\ solves' = m.solves
  ELSE UNCHANGED dragVars

\* One ball under collisions, frames, ticks and the dock.
NextBall ==
  \/ didFinishUpdateForScene
  \/ \E st \in CollisionStrengths : DidCollide(st)
  \/ TimerFire
  \/ \E b \in BOOLEAN : AnimateDrag(b)
  \/ Tick
  \/ \E r \in LaunchRects : Dock(r)
  \/ \E a \in actions : DockComplete(a)

SpecBall == InitBall /\ [][NextBall]_vars

\* One ball under the mouse, the scroll wheel and ticks, the controller's
\* dragState setter being the final one.
NextBallDrag ==
  \/ \E p \in MousePoints : MouseDown(p) /\ DragAnimated
  \/ \E p \in MousePoints, dt \in ClockSteps : MouseDrag(p, dt) /\ DragAnimated
  \/ \E dt \in ClockSteps : MouseUp(dt) /\ DragAnimated
  \/ ScrollBegan /\ DragAnimated
  \/ \E dt \in ClockSteps : ScrollEnded(dt) /\ DragAnimated
  \/ Tick

SpecBallDrag == InitBall /\ [][NextBallDrag]_vars

\* ============================================================ AppDelegate
\* applicationShouldHandleReopenHasVisibleWindows: the dock icon is clicked.
\* mouse: <<>> or <<the frame of the screen the pointer is on>>; r: the rect
\* inferred for the hovered dock icon; screen: the ball window's screen, as
\* launch() reads it.  The callback given to dock() sets ballVisible to
\* false; with no ball dock() calls it before it returns.
applicationShouldHandleReopen(mouse, r, screen) ==
  IF Len(mouse) = 0
  THEN UNCHANGED vars
  ELSE LET dockIconRect == constrainRect(r, mouse[1])
       IN  IF ballVisible
           THEN /\ dock(dockIconRect)
                /\ ballVisible' = (ball # 0)
           ELSE /\ launch(dockIconRect, screen)
                /\ ballVisible' = TRUE

\* The move action `a` of a dock() called by the app delegate finishes:
\* this.ball = undefined, then the callback.
AppDockComplete(a) ==
  /\ dockCompletion(a)
  /\ ballVisible' = FALSE

\* The app under clicks on its dock icon, dock completions and frames.
NextApp ==
  \/ \E mouse \in Screens, r \in LaunchRects, screen \in Screens :
       applicationShouldHandleReopen(mouse, r, screen)
  \/ \E a \in actions : AppDockComplete(a)
  \/ PhysicsStep

SpecApp == Init /\ [][NextApp]_vars

\* ================================================================= claims
Destroyed(bl) == ~bl.inScene /\ Len(bl.physicsBody) = 0

\* C1: dock() called while the controller has no ball invokes onComplete
\* exactly once, before dock returns (and never again), creates no ball,
\* starts no animation, and leaves the physics queue and the drag state as
\* they were.
C1_DockNoBall ==
  /\ [](\A d \in 1..Len(docks) : docks[d].ball = 0 => docks[d].calls = 1)
  /\ [][(ball = 0 /\ Len(docks') = Len(docks) + 1) =>
          /\ docks'[Len(docks')] = [ball |-> 0, calls |-> 1]
          /\ UNCHANGED <<balls, ball, actions, physicsQueue, dragState>>]_vars

\* A dock call that found no ball has returned, its callback invoked once.
C1_Witness ==
  \E d \in 1..Len(docks) : docks[d] = [ball |-> 0, calls |-> 1]

\* C2: dock() called while the controller has a ball leaves the ball's body
\* non-dynamic, without gravity and at rest, and does not invoke onComplete;
\* onComplete has not run while the move action is pending and has run
\* exactly once when the action has completed; the step that invokes it
\* leaves the controller without a ball and the docked ball destroyed.
C2_DockWithBall ==
  /\ [](\A d \in 1..Len(docks) : docks[d].ball # 0 =>
          \/ docks[d].calls = 0 /\ (\E a \in actions : a.dock = d)
          \/ docks[d].calls = 1 /\ ~(\E a \in actions : a.dock = d))
  /\ [][(ball # 0 /\ Len(docks') = Len(docks) + 1) =>
          /\ balls'[ball].physicsBody =
               <<[isDynamic |-> FALSE, affectedByGravity |-> FALSE,
                  velocity |-> "zero"]>>
          /\ docks'[Len(docks')] = [ball |-> ball, calls |-> 0]
          /\ \E a \in actions' \ actions : a.dock = Len(docks')]_vars
  /\ [][\A d \in 1..Len(docks) : docks'[d].calls # docks[d].calls =>
          /\ docks'[d].calls = docks[d].calls + 1
          /\ ball' = 0
          /\ Destroyed(balls'[docks[d].ball])]_vars

\* A dock of a ball has completed: callback invoked, ball gone.
C2_Witness ==
  \E d \in 1..Len(docks) :
    /\ docks[d].ball # 0 /\ docks[d].calls = 1
    /\ ball = 0 /\ Destroyed(balls[docks[d].ball])

\* C3: in every state the controller's ball, if any, is the one ball that is
\* in the scene and has its body; every other ball ever created is destroyed
\* (out of the scene, body cleared).
C3_OneBall ==
  /\ ball \in 0..Len(balls)
  /\ \A b \in 1..Len(balls) :
       IF b = ball
       THEN balls[b].inScene /\ Len(balls[b].physicsBody) = 1
       ELSE Destroyed(balls[b])

\* A second ball was launched while the first was present (no dock was ever
\* called): the first is destroyed, the second is the controller's.
C3_Witness ==
  /\ Len(balls) = 2 /\ ball = 2 /\ docks = <<>>
  /\ Destroyed(balls[1]) /\ balls[2].inScene

\* C4, as the spec states it: every callback pushed on the physics queue has
\* been executed exactly once as soon as it is no longer queued.
C4_EveryCallbackRunsOnce ==
  \A b \in 1..Len(balls) :
    \/ \E i \in 1..Len(physicsQueue) : physicsQueue[i].ball = b
    \/ balls[b].cbRuns = 1

\* C5, as the spec states it: once the queue has been drained, the launch
\* impulse of every launched ball has been applied exactly once.
C5_LaunchImpulseApplied ==
  physicsQueue = <<>> =>
    \A b \in 1..Len(balls) : balls[b].launchImpulses = 1

\* C7: launch() called while the view has no screen changes nothing: no ball
\* is created, the controller's ball and every ball stay as they are and
\* nothing is pushed on the physics queue.
C7_LaunchNoScreen ==
  [][(\E r \in LaunchRects : Launch(r, <<>>)) =>
       UNCHANGED <<balls, ball, physicsQueue, dragState, actions, docks,
                   tempMouseCatcherRect>>]_vars

\* launch() has just returned without creating a ball, while the controller
\* has one.
C7_Witness ==
  /\ lastOp = Op("launch", 0, <<>>, ZeroVelocity, <<>>)
  /\ ball # 0 /\ balls[ball].inScene

\* The centre of a launch rect, and its distances from the edges of a frame.
CentreX(r) == r.x + r.w \div 2
CentreY(r) == r.y + r.h \div 2
FromBottom(e) == CentreY(e.r) - e.frame.y
FromLeft(e) == CentreX(e.r) - e.frame.x
FromRight(e) == (e.frame.x + e.frame.w) - CentreX(e.r)

\* C6, amended: the impulse queued by launch() on a screen has dy = 2000 when
\* the centre of the rect is strictly less than 200 above the bottom edge and
\* dy = 0 otherwise (at exactly 200 too); when the centre is 200 or more from
\* the bottom, left and right edges the impulse is (0, 0).
C6_LaunchImpulseStrict ==
  \A i \in 1..Len(physicsQueue) :
    LET e == physicsQueue[i] IN
    /\ e.impulse.dy = IF FromBottom(e) < 200 THEN 2000 ELSE 0
    /\ (FromBottom(e) >= 200 /\ FromLeft(e) >= 200 /\ FromRight(e) >= 200)
         => e.impulse = [dx |-> 0, dy |-> 0]

\* Two launches are queued: one centred 100 above the bottom edge, with
\* dy = 2000, and one centred exactly 200 from the bottom and more from the
\* sides, with no impulse at all.
C6_Witness ==
  \E i, j \in 1..Len(physicsQueue) :
    /\ FromBottom(physicsQueue[i]) = 100 /\ physicsQueue[i].impulse.dy = 2000
    /\ FromBottom(physicsQueue[j]) = 200
    /\ FromLeft(physicsQueue[j]) > 200 /\ FromRight(physicsQueue[j]) > 200
    /\ physicsQueue[j].impulse = [dx |-> 0, dy |-> 0]

\* C6, as the spec states it: dy = 2000 whenever the centre is within 200 of
\* the bottom edge (200 included) and 0 otherwise; (0, 0) when the centre is
\* more than 200 from the bottom, left and right edges.
C6_AsStated ==
  \A i \in 1..Len(physicsQueue) :
    LET e == physicsQueue[i] IN
    /\ e.impulse.dy = IF FromBottom(e) <= 200 THEN 2000 ELSE 0
    /\ (FromBottom(e) > 200 /\ FromLeft(e) > 200 /\ FromRight(e) > 200)
         => e.impulse = [dx |-> 0, dy |-> 0]

\* A velocity with a nonzero component.
Moving(v) == v.x.n # 0 \/ v.y.n # 0

\* C8: mouse-up and the end of a scroll drop the drag state and leave the
\* ball, if there is one, dynamic; the tracker's velocity is applied to the
\* ball as an impulse exactly when it is nonzero (and there is a ball), and
\* then the impulse is that velocity; with no drag state nothing is applied.
C8_Release ==
  [][\A dt \in ClockSteps : (onMouseUp(dt) \/ onScrollEnded(dt)) =>
       LET v == IF Len(dragState) = 1
                THEN VelocityTrackerVelocity(dragState[1].samples, now + dt)
                ELSE ZeroVelocity
       IN  /\ dragState' = <<>>
           /\ ball # 0 => balls'[ball].physicsBody[1].isDynamic
           /\ lastOp'.vel = v
           /\ lastOp'.imp = IF Moving(v) /\ ball # 0 THEN <<v>> ELSE <<>>
           /\ Len(dragState) = 0 => lastOp'.imp = <<>>
           /\ ball # 0 =>
                balls'[ball].physicsBody[1].velocity =
                  IF Moving(v) THEN "nonzero"
                  ELSE balls[ball].physicsBody[1].velocity]_vars

\* A scroll has just ended with an impulse on the ball, which is dynamic.
C8_Witness ==
  /\ lastOp.op = "scrollEnded" /\ lastOp.imp = <<lastOp.vel>>
  /\ Moving(lastOp.vel)
  /\ ball # 0 /\ balls[ball].physicsBody[1].isDynamic
  /\ dragState = <<>>

\* The samples of a drag state that are younger than the window at `time`.
InWindow(ds, time) == SelectSeq(ds.samples, LAMBDA s : time - s.time < DragWindow)

\* C9, amended: a mouse-up on a drag whose tracker holds two or more samples
\* younger than 0.1 s, the newest d away from the oldest (d nonzero) and t
\* later, applies the impulse d / t, whose components have the signs of d's;
\* with fewer than two such samples (a gesture with one drag event has one:
\* mouse-down records none) or with d = 0 it applies none.
C9_Release ==
  [][\A dt \in DragSteps : (onMouseUp(dt) /\ Len(dragState) = 1 /\ ball # 0) =>
       LET fs == InWindow(dragState[1], now + dt)
           first == fs[1]
           last == fs[Len(fs)]
       IN  IF Len(fs) >= 2 /\ last.pos # first.pos
           THEN /\ last.time - first.time > 0
                /\ lastOp'.imp =
                     <<[x |-> [k |-> "num", n |-> last.pos.x - first.pos.x,
                               d |-> last.time - first.time],
                        y |-> [k |-> "num", n |-> last.pos.y - first.pos.y,
                               d |-> last.time - first.time]]>>
                /\ balls'[ball].physicsBody[1].velocity = "nonzero"
           ELSE lastOp'.imp = <<>>]_vars

\* A drag has just been released with an impulse that points down and left,
\* read from two or more samples.
C9_Witness ==
  /\ lastOp.op = "mouseUp" /\ Len(lastOp.fs) >= 2
  /\ lastOp.imp # <<>>
  /\ lastOp.imp[1].x.n < 0 /\ lastOp.imp[1].y.n < 0

\* C9, as the spec states it: a gesture that begins with mouse-down on the
\* ball, has one or more drag events that move the tracked position by a
\* nonzero d in a time t, and is released within 0.1 s of its beginning,
\* applies the impulse d / t.
C9_AsStated ==
  [][\A dt \in DragSteps :
       (/\ onMouseUp(dt)
        /\ Len(dragState) = 1 /\ ball # 0
        /\ Len(dragState[1].events) >= 2
        /\ dragState[1].events[1] = "down"
        /\ \A i \in 2..Len(dragState[1].events) : dragState[1].events[i] = "drag"
        /\ dragState[1].currentMousePos # dragState[1].mouseStart
        /\ now < DragWindow) =>
       LET d == Pt(dragState[1].currentMousePos.x - dragState[1].mouseStart.x,
                   dragState[1].currentMousePos.y - dragState[1].mouseStart.y)
       IN  /\ Len(lastOp'.imp) = 1
           /\ lastOp'.imp[1].x.n * now = d.x * lastOp'.imp[1].x.d
           /\ lastOp'.imp[1].y.n * now = d.y * lastOp'.imp[1].y.d]_vars

\* v held between lo and hi.
ClampTo(v, lo, hi) == IF v < lo THEN lo ELSE IF v > hi THEN hi ELSE v

\* C10: after mouse-down on the ball, mouse-drag, scroll Began and scroll
\* Changed, with a drag state set and a ball no wider or higher than the view,
\* the ball is at ballStart + (currentMousePos - mouseStart), each coordinate
\* held between radius and the view's extent less radius.
C10_DragClamped ==
  [][(/\ \/ \E p \in DragPoints : onMouseDown(p)
         \/ \E p \in DragPoints, dt \in DragSteps : onMouseDrag(p, dt)
         \/ onScrollBegan
         \/ \E d \in DragDeltas, dt \in DragSteps : onScrollChanged(d.x, d.y, dt)
      /\ Len(dragState') = 1 /\ ball # 0
      /\ 2 * balls[ball].radius <= ViewW /\ 2 * balls[ball].radius <= ViewH) =>
       LET ds == dragState'[1]
           r == balls[ball].radius
       IN  balls'[ball].position =
             Pt(ClampTo(ds.ballStart.x + (ds.currentMousePos.x - ds.mouseStart.x),
                        r, ViewW - r),
                ClampTo(ds.ballStart.y + (ds.currentMousePos.y - ds.mouseStart.y),
                        r, ViewH - r))]_vars

\* A drag has pushed the ball against the far corner of the view: it is held
\* there, short of where the pointer would take it.
C10_Witness ==
  /\ Len(dragState) = 1 /\ ball # 0
  /\ Len(dragState[1].events) >= 2
  /\ balls[ball].position = Pt(ViewW - RADIUS, ViewH - RADIUS)
  /\ currentBallPos(dragState[1]).x > ViewW - RADIUS
  /\ currentBallPos(dragState[1]).y > ViewH - RADIUS


\* ------------------------------------------------------------ constrainRect
Fits(r, bounds) == r.w <= bounds.w /\ r.h <= bounds.h
Inside(r, bounds) ==
  /\ CGRectGetMinX(bounds) <= CGRectGetMinX(r)
  /\ CGRectGetMaxX(r) <= CGRectGetMaxX(bounds)
  /\ CGRectGetMinY(bounds) <= CGRectGetMinY(r)
  /\ CGRectGetMaxY(r) <= CGRectGetMaxY(bounds)

\* C11: for a rect no larger than the bounds, constrainRect returns a rect of
\* the same size that lies inside the bounds, each axis moved by the least
\* distance that brings it inside (not at all where it already fits), and a
\* second call on the result returns the result unchanged.
C11_ConstrainFits ==
  \A i \in 1..Len(rectCall) :
    LET c == rectCall[i]
        b == c.bounds
    IN  (Fits(c.given, b) /\ Len(c.outs) >= 1) =>
          /\ c.outs[1].w = c.given.w /\ c.outs[1].h = c.given.h
          /\ Inside(c.outs[1], b)
          /\ c.outs[1].x = ClampTo(c.given.x, b.x, b.x + b.w - c.given.w)
          /\ c.outs[1].y = ClampTo(c.given.y, b.y, b.y + b.h - c.given.h)
          /\ c.r = c.outs[Len(c.outs)]
          /\ Len(c.outs) >= 2 => c.outs[2] = c.outs[1]

\* A rect that fits but lay outside on both axes has been moved in and
\* constrained a second time.
C11_Witness ==
  /\ Len(rectCall) = 1
  /\ Fits(rectCall[1].given, rectCall[1].bounds)
  /\ ~Inside(rectCall[1].given, rectCall[1].bounds)
  /\ rectCall[1].given.x # rectCall[1].r.x
  /\ rectCall[1].given.y # rectCall[1].r.y
  /\ Len(rectCall[1].outs) = 2

\* C12: for a rect wider (taller) than the bounds, constrainRect returns an
\* origin on that axis equal to the bounds' origin.
C12_AsStated ==
  \A i \in 1..Len(rectCall) :
    LET c == rectCall[i]
        b == c.bounds
    IN  Len(c.outs) >= 1 =>
          /\ c.given.w > b.w => c.outs[1].x = b.x
          /\ c.given.h > b.h => c.outs[1].y = b.y

\* ------------------------------------------------------------ the trackers
\* C13: with clock readings that never go back, right after an add to the
\* drag tracker every sample it keeps is younger than its window of 0.1 s,
\* and right after an add to or a trim of the spring tracker every sample it
\* keeps is no older than its window of 1/15 s.
C13_Retained ==
  [][/\ (\E p \in TrackPoints : TrackerAdd(p)) =>
          \A i \in 1..Len(dragTracker') :
            now' - dragTracker'[i].time < DragWindow
     /\ ((\E v \in TrackValues : SpringTrackerAdd(v)) \/ SpringTrackerVelocity) =>
          \A i \in 1..Len(springTracker') :
            now' - springTracker'[i].time <= LookBack]_vars

\* A velocity read has trimmed the spring tracker and kept a sample that is
\* exactly one window old.
C13_Witness ==
  /\ Len(velocityRead) = 1
  /\ velocityRead[1].tracker = "spring"
  /\ Len(springTracker) >= 1
  /\ now - springTracker[1].time = LookBack

\* C13 as the specification words it: every sample either tracker keeps is
\* strictly younger than the tracker's window.
C13_AsStated ==
  [][/\ (\E p \in TrackPoints : TrackerAdd(p)) =>
          \A i \in 1..Len(dragTracker') :
            now' - dragTracker'[i].time < DragWindow
     /\ ((\E v \in TrackValues : SpringTrackerAdd(v)) \/ SpringTrackerVelocity) =>
          \A i \in 1..Len(springTracker') :
            now' - springTracker'[i].time < LookBack]_vars

\* q is the quotient n / d.
FracEq(q, n, d) == q.k = "num" /\ q.n * d = n * q.d
IsZero(q) == q.k = "num" /\ q.n = 0

\* C14: when the window holds exactly two samples (t0, v0) and (t1, v1) with
\* t1 > t0, either tracker's velocity read is (v1 - v0) / (t1 - t0), whatever
\* the clock reads at the read.
C14_AsStated ==
  \A i \in 1..Len(velocityRead) :
    LET rd == velocityRead[i]
        w == rd.window
    IN  (Len(w) = 2 /\ w[2].time > w[1].time) =>
          IF rd.tracker = "drag"
          THEN /\ FracEq(rd.velocity.x, w[2].pos.x - w[1].pos.x,
                         w[2].time - w[1].time)
               /\ FracEq(rd.velocity.y, w[2].pos.y - w[1].pos.y,
                         w[2].time - w[1].time)
          ELSE FracEq(rd.velocity, w[2].value - w[1].value,
                      w[2].time - w[1].time)

\* C15: a velocity read from either tracker is exactly zero, never infinite
\* and never NaN, when fewer than two samples are inside the window (all
\* aged out included) or the first and the last sample inside the window
\* carry the same time.
C15_AsStated ==
  \A i \in 1..Len(velocityRead) :
    LET rd == velocityRead[i]
        w == rd.window
    IN  (Len(w) < 2 \/ w[1].time = w[Len(w)].time) =>
          IF rd.tracker = "drag"
          THEN IsZero(rd.velocity.x) /\ IsZero(rd.velocity.y)
          ELSE IsZero(rd.velocity)

\* -------------------------------------------------------------- the springs
SpringIds == 1..Len(springs)
Subscribed(s) == SubscribedIn(Now, s)
Idle(s) == Subscribed(s) = {}
LastCall(s) == springs[s].calls[Len(springs[s].calls)]
\* The springs without their call histories.
Plain(sps) == [s \in 1..Len(sps) |-> [sps[s] EXCEPT !.calls = <<>>]]

\* C16: when start(target, v) is followed at once by stop(), with no tick on
\* the spring in between, value is what it was before start (the solve's
\* from, unscaled), animating is false, targetValue is cleared and no ticker
\* of the spring is subscribed to the driver.
C16_StartStop ==
  \A s \in SpringIds :
    springs[s].calls = <<"start", "stop">> =>
      LET f == springs[s].stopFunction
      IN  /\ f # 0 /\ solves[f].spring = s /\ solves[f].step = 0
          /\ springs[s].value * springs[s].scale = solves[f].from
          /\ ~springs[s].animating
          /\ springs[s].targetValue = <<>>
          /\ Subscribed(s) = {}

\* A spring was started towards another value and stopped at once, while the
\* other spring's solve keeps the driver running.
C16_Witness ==
  \E s \in SpringIds :
    /\ springs[s].calls = <<"start", "stop">>
    /\ solves[springs[s].stopFunction].to # solves[springs[s].stopFunction].from
    /\ driver.tickers # {}

\* C17: at most one solve of a spring is subscribed to the driver at any
\* time, and it is the one the spring's last start() began; a solve that is
\* not subscribed (one that a later start() replaced, too) is never updated
\* again, and a tick changes no spring that has no solve subscribed.
C17_OneSolve ==
  /\ [](\A s \in SpringIds :
          /\ Cardinality(Subscribed(s)) <= 1
          /\ \A id \in Subscribed(s) :
               springs[s].stopFunction = id /\ springs[s].animating)
  /\ [][/\ \A id \in 1..Len(solves) :
             id \notin driver.tickers => solves'[id].step = solves[id].step
        /\ Tick => \A s \in SpringIds : Idle(s) => springs'[s] = springs[s]]_vars

\* A spring was started again while its first solve was running, and a tick
\* has since run the second solve only.
C17_Witness ==
  \E s \in SpringIds, i, j \in 1..Len(solves) :
    /\ i < j /\ solves[i].spring = s /\ solves[j].spring = s
    /\ solves[i].replaced
    /\ solves[i].step < solves[i].ticks
    /\ solves[j].step >= 1
    /\ springs[s].calls = <<"start", "update">>

\* C18: stop() on a spring with no solve running (never started, completed,
\* or stopped already) leaves value, targetValue, the driver's tickers and
\* its display link as they are, and animating false.
C18_StopIdle ==
  [][\A s \in SpringIds :
       (Idle(s) /\ SpringStop(s)) =>
         /\ Plain(springs') = Plain(springs)
         /\ ~springs'[s].animating /\ springs'[s].targetValue = <<>>
         /\ driver' = driver
         /\ solves' = solves]_vars

\* A spring whose solve was stopped has been stopped a second time, its stop
\* function still that of the cancelled solve, while the other spring's solve
\* keeps the display link running.
C18_Witness ==
  \E s, t \in SpringIds :
    /\ s # t
    /\ springs[s].calls = <<"stop", "stop">>
    /\ springs[s].stopFunction # 0
    /\ springs[t].animating
    /\ driver.displayLink

\* C19: when a tick brings a solve to rest the spring is idle (animating
\* false, targetValue cleared, no ticker subscribed, value on the target) and
\* no solve of an idle spring is updated until the next start(); with the
\* display link calling tick() for as long as it runs, every subscribed solve
\* leaves the driver, at rest unless it was cancelled.
C19_Completion ==
  /\ [](\A s \in SpringIds :
          LastCall(s) = "complete" =>
            /\ ~springs[s].animating
            /\ springs[s].targetValue = <<>>
            /\ springs[s].stopFunction = 0
            /\ Idle(s))
  /\ [][\A id \in 1..Len(solves) :
          Idle(solves[id].spring) => solves'[id].step = solves[id].step]_vars
  /\ \A id \in 1..MaxSolves :
       (id \in driver.tickers) ~>
         (id \notin driver.tickers /\ id <= Len(solves) /\
            (solves[id].step = solves[id].ticks \/
             ~springs[solves[id].spring].animating \/
             solves[id].replaced))

\* A solve towards another value has come to rest after SolveTicks ticks.
C19_Witness ==
  \E id \in 1..Len(solves) :
    /\ solves[id].step = SolveTicks
    /\ solves[id].from # solves[id].to
    /\ LastCall(solves[id].spring) = "complete"
    /\ springs[solves[id].spring].value * springs[solves[id].spring].scale =
         solves[id].to

\* C20: the display link runs exactly when at least one ticker is
\* subscribed; never more than one display link is alive; one is created in
\* a step that takes the tickers from none to some, invalidated in a step
\* that takes them from some to none, and otherwise the same number is alive
\* after the step as before.
C20_DisplayLink ==
  /\ [](/\ driver.displayLink <=> driver.tickers # {}
        /\ driver.live = IF driver.displayLink THEN 1 ELSE 0)
  /\ [][/\ (driver.tickers = {} /\ driver'.tickers # {}) =>
             (driver'.displayLink /\ driver'.live = driver.live + 1)
        /\ (driver.tickers # {} /\ driver'.tickers = {}) =>
             (~driver'.displayLink /\ driver'.live = driver.live - 1)
        /\ ((driver.tickers = {}) <=> (driver'.tickers = {})) =>
             driver'.live = driver.live]_vars

\* Both springs are animating on one display link.
C20_Witness ==
  /\ Cardinality(driver.tickers) = 2
  /\ \A s \in SpringIds : springs[s].animating /\ Cardinality(Subscribed(s)) = 1
  /\ driver.displayLink /\ driver.live = 1

\* p <= q, both finite.
FracLeq(p, q) == ~FracLess(q, p)
FracMinOf(p, q) == IF FracLess(p, q) THEN p ELSE q
FracMaxOf(p, q) == IF FracLess(p, q) THEN q ELSE p

\* C23: with clamping on and domainStart # domainEnd, remap returns a number
\* between min(rangeStart, rangeEnd) and max(rangeStart, rangeEnd), and for x
\* between domainStart and domainEnd it returns the linear interpolation
\* rangeStart + (x - domainStart) / (domainEnd - domainStart) * (rangeEnd -
\* rangeStart); remap(x, 0, 200, 1, 0) is 1 at x = 0, 0 at 200, 0 at 300 and 1
\* at -50.
C23_RemapClamped ==
  \A i \in 1..Len(remapCall) :
    LET c == remapCall[i]
    IN  (c.out # <<>> /\ c.clamp /\ c.domainStart # c.domainEnd) =>
          LET o == c.out[1]
              between == \/ FracLeq(c.domainStart, c.x) /\ FracLeq(c.x, c.domainEnd)
                         \/ FracLeq(c.domainEnd, c.x) /\ FracLeq(c.x, c.domainStart)
          IN  /\ o.k = "num"
              /\ FracLeq(FracMinOf(c.rangeStart, c.rangeEnd), o)
              /\ FracLeq(o, FracMaxOf(c.rangeStart, c.rangeEnd))
              /\ between =>
                   \* (o - rangeStart) * (domainEnd - domainStart)
                   \*   = (x - domainStart) * (rangeEnd - rangeStart)
                   (o.n * c.rangeStart.d - c.rangeStart.n * o.d)
                     * (c.domainEnd.n - c.domainStart.n)
                     * c.rangeEnd.d
                   = (c.x.n - c.domainStart.n)
                     * (c.rangeEnd.n * c.rangeStart.d - c.rangeStart.n * c.rangeEnd.d)
                     * o.d
              /\ ( /\ c.domainStart = Num(0) /\ c.domainEnd = Num(200)
                   /\ c.rangeStart = Num(1) /\ c.rangeEnd = Num(0) ) =>
                   /\ c.x = Num(0) => o = Num(1)
                   /\ c.x = Num(200) => o = Num(0)
                   /\ c.x = Num(300) => o = Num(0)
                   /\ c.x = Num(-50) => o = Num(1)

\* remap(300, 0, 200, 1, 0) has returned 0: x beyond the domain, clamped.
C23_Witness ==
  /\ Len(remapCall) = 1
  /\ remapCall[1].out = <<Num(0)>>
  /\ remapCall[1].x = Num(300)
  /\ remapCall[1].clamp
  /\ remapCall[1].domainStart = Num(0) /\ remapCall[1].domainEnd = Num(200)
  /\ remapCall[1].rangeStart = Num(1) /\ remapCall[1].rangeEnd = Num(0)

\* C21: a contact's strength is remap(impulse, 1000, 2000, 0, 0.5): an
\* impulse of at most 1000 gives a strength of at most 0 and queues no sound,
\* 1500 gives 0.25 and 2000 or more gives 0.5, each queued with that strength.
C21_CollisionStrength ==
  [][\A impulse \in ContactImpulses :
       didBeginContact(impulse) =>
         LET strength == contacts'.last[1].strength
             queued == mainQueue' = Append(mainQueue, [strength |-> strength])
         IN  /\ impulse <= 1000 =>
                  /\ strength.k = "num" /\ strength.n <= 0
                  /\ mainQueue' = mainQueue
             /\ impulse = 1500 => strength = Frac(1, 4) /\ queued
             /\ impulse >= 2000 => strength = Frac(1, 2) /\ queued]_vars

\* A contact of impulse 1500 has queued a sound of strength 0.25 after a
\* contact of impulse 1000 queued none.
C21_Witness ==
  /\ contacts.count = 2
  /\ contacts.last = <<[impulse |-> 1500, strength |-> Frac(1, 4)]>>
  /\ mainQueue = <<[strength |-> Frac(1, 4)]>>

\* C22: a player that is playing never has its volume set or play() called;
\* a block that runs when every player is playing changes no player and is
\* gone from the queue, also when several blocks were queued before any ran.
C22_IdlePlayersOnly ==
  [][/\ \A i \in DOMAIN sounds :
          sounds[i].isPlaying =>
            /\ sounds'[i].volume = sounds[i].volume
            /\ sounds'[i].plays = sounds[i].plays
     /\ \A i \in DOMAIN sounds :
          sounds'[i].plays > sounds[i].plays =>
            /\ ~sounds[i].isPlaying
            /\ mainQueue # <<>>
            /\ sounds'[i].volume = Head(mainQueue).strength
            /\ sounds'[i].plays = sounds[i].plays + 1
     /\ (RunBlock /\ \A i \in DOMAIN sounds : sounds[i].isPlaying) =>
          sounds' = sounds /\ mainQueue' = Tail(mainQueue)]_vars

\* Three sounds were queued before any block ran; one player is playing the
\* first of them, and the second block has run while no player was idle and
\* is gone.
C22_Witness ==
  /\ contacts.count = 3
  /\ Len(mainQueue) = 1
  /\ \A i \in DOMAIN sounds : sounds[i].isPlaying
  /\ \E i \in DOMAIN sounds :
       sounds[i].plays = 2 /\ sounds[i].volume = Frac(1, 4)
  /\ \A i \in DOMAIN sounds : sounds[i].plays <= 2
  /\ Cardinality({i \in DOMAIN sounds : sounds[i].plays = 2}) = 1

\* The solve that spring s's last start() began, if no update of it has run
\* yet and it began on its target with velocity 0.
AtRest(s) ==
  LET id == springs[s].stopFunction
  IN  /\ id # 0
      /\ id \in driver.tickers
      /\ solves[id].step = 0
      /\ solves[id].from = solves[id].to
      /\ springs[s].velocity = <<0>>
      /\ springs[s].targetValue = <<springs[s].value>>

\* C24: a spring started on its current value with velocity 0 settles within
\* one tick: the first tick after start() leaves it with animating false,
\* targetValue cleared, no ticker subscribed, and its value what the target
\* was.
C24_SettlesInOneTick ==
  [][\A s \in SpringIds :
       (AtRest(s) /\ Tick) =>
         /\ ~springs'[s].animating
         /\ springs'[s].targetValue = <<>>
         /\ springs'[s].stopFunction = 0
         /\ SubscribedIn(Motion(springs', driver', solves'), s) = {}
         /\ <<springs'[s].value>> = springs[s].targetValue]_vars

\* A solve that began on its target has had its one update, and its spring is
\* idle on that value.
C24_Witness ==
  \E id \in 1..Len(solves) :
    LET s == solves[id].spring
    IN  /\ solves[id].from = solves[id].to
        /\ solves[id].step = 1
        /\ ~springs[s].animating
        /\ Subscribed(s) = {}
        /\ springs[s].value * springs[s].scale = solves[id].to
        /\ LastCall(s) = "complete"

\* ----------------------------------------------------- the dynamic flag
\* C25, as the spec states it: from dock() until the docked ball is
\* destroyed its body is not dynamic, whatever mouse and scroll events arrive
\* while the move action is pending.
C25_AsStated ==
  \A a \in actions :
    Len(balls[a.ball].physicsBody) = 1 =>
      ~balls[a.ball].physicsBody[1].isDynamic

\* C26, as the spec states it: whenever a DragState is set and the controller
\* has a ball, the ball's body is not dynamic.
C26_AsStated ==
  (Len(dragState) = 1 /\ ball # 0) => ~balls[ball].physicsBody[1].isDynamic

\* C27, as the spec states it: every callback the drain runs finds its ball
\* with a physics body and applies its impulse.
C27_AsStated ==
  [][PhysicsStep =>
       \A i \in 1..Len(physicsQueue) :
         LET b == physicsQueue[i].ball
         IN  /\ Len(balls[b].physicsBody) = 1
             /\ balls'[b].launchImpulses = balls[b].launchImpulses + 1]_vars

\* C28, as the spec states it: the impulse queued by launch() on a screen has
\* |dx| = 2000 when the centre of the rect is less than 200 from the left or
\* the right edge, pointing away from the nearer of the two (either way when
\* they are equally near), and dx = 0 otherwise.
C28_AsStated ==
  \A i \in 1..Len(physicsQueue) :
    LET e == physicsQueue[i] IN
    IF FromLeft(e) < 200 \/ FromRight(e) < 200
    THEN /\ FromLeft(e) < FromRight(e) => e.impulse.dx = 2000
         /\ FromRight(e) < FromLeft(e) => e.impulse.dx = -2000
         /\ e.impulse.dx \in {2000, -2000}
    ELSE e.impulse.dx = 0

\* ------------------------------------------------------- scroll gestures
\* C29, as the spec states it: scroll Began without a ball changes nothing;
\* with a ball it sets a DragState and freezes the mouse-catcher rect at what
\* it was before the gesture; every Changed leaves the frozen rect as it is;
\* Ended clears it, and the mouse-catcher rect is the ball's rect again.
C29_AsStated ==
  /\ [][(onScrollBegan /\ ball = 0) =>
          UNCHANGED <<balls, dragState, tempMouseCatcherRect>>]_vars
  /\ [][(onScrollBegan /\ ball # 0 /\ Len(tempMouseCatcherRect) = 0) =>
          /\ Len(dragState') = 1
          /\ Len(tempMouseCatcherRect') = 1
          /\ mouseCatcherRect(balls)' = mouseCatcherRect(balls)]_vars
  /\ [][(Len(tempMouseCatcherRect) = 1 /\ Len(tempMouseCatcherRect') = 1) =>
          mouseCatcherRect(balls)' = mouseCatcherRect(balls)]_vars
  /\ [][(\E dt \in ClockSteps : onScrollEnded(dt)) =>
          /\ tempMouseCatcherRect' = <<>>
          /\ ball # 0 =>
               mouseCatcherRect(balls)' =
                 <<convertRectToScreen(BallRect(balls'[ball]))>>]_vars

C31_Snap ==
  /\ [][\A s \in SpringIds, v \in SetValues :
          SpringSetValue(s, v) =>
            /\ springs'[s].value = v
            /\ ~springs'[s].animating
            /\ springs'[s].targetValue = <<>>
            /\ SubscribedIn(Motion(springs', driver', solves'), s) = {}
            /\ springs'[s].tracker =
                 Append(springs[s].tracker, [time |-> now, value |-> v])
            /\ \A id \in 1..Len(solves) : solves'[id].step = solves[id].step]_vars
  /\ [][Tick =>
          /\ \A s \in SpringIds : springs'[s].tracker = springs[s].tracker
          /\ \A id \in driver.tickers :
               solves[id].step + 1 < solves[id].ticks =>
                 /\ id \in driver'.tickers
                 /\ springs'[solves[id].spring].animating]_vars

\* A value was assigned while the spring's solve was running, after one of
\* its updates: the solve is cancelled short of its rest, the spring is idle
\* on the assigned value, and the tracker holds the constructor's sample and
\* the new one.
C31_Witness ==
  \E s \in SpringIds, id \in 1..Len(solves) :
    /\ solves[id].spring = s
    /\ solves[id].step = 1 /\ solves[id].step < solves[id].ticks
    /\ id \notin driver.tickers
    /\ springs[s].calls = <<"update", "set">>
    /\ ~springs[s].animating /\ springs[s].targetValue = <<>>
    /\ springs[s].value = 0
    /\ Len(springs[s].tracker) = 2
    /\ springs[s].tracker[2].value = 0

\* C32, as the spec states it: read while the spring is animating, velocity
\* is the velocity the solver has reached in the running solve (unscaled);
\* read while it is not, it is the velocity of the spring's tracker.
C32_AsStated ==
  \A s \in SpringIds :
    IF springs[s].animating
    THEN \A id \in Subscribed(s) :
           FracEq(getVelocity(Now, s, now), solves[id].speed, springs[s].scale)
    ELSE getVelocity(Now, s, now)
           = trackerVelocity(trim(springs[s].tracker, now), now)

\* ------------------------------------------------------------- Ball, drawn
\* C34, as the spec states it: after each update() the image container's
\* vertical offset is -(1 - s) * radius / 2 for the x scale s that this
\* update() gave the container, which is the squish spring's value at the
\* call.
C34_AsStated ==
  [][didFinishUpdateForScene =>
       /\ nodes'.imgContainer.xScale = SpringValue(Now, squish)
       /\ nodes'.imgContainer.y =
            FracDiv(FracMul(FracSub(Num(0),
                                    FracSub(Num(1), nodes'.imgContainer.xScale)),
                            Num(balls[ball].radius)), Num(2))]_vars

\* ------------------------------------------------ SpringAnimation, stopped
\* C33: when stop() or an assignment to value returns, no ticker of the
\* spring is subscribed to the driver, whatever other springs are running;
\* from then on only a start() of the spring subscribes one again, and until
\* it does no tick changes the spring's value or calls its onUpdate.
C33_Synchronous ==
  /\ [][\A s \in SpringIds :
          (SpringStop(s) \/ \E v \in SetValues : SpringSetValue(s, v)) =>
            /\ SubscribedIn(Motion(springs', driver', solves'), s) = {}
            /\ driver'.tickers = driver.tickers \ Subscribed(s)]_vars
  /\ [][\A s \in SpringIds :
          Idle(s) =>
            /\ SubscribedIn(Motion(springs', driver', solves'), s) # {} =>
                 /\ springs'[s].calls[Len(springs'[s].calls)] = "start"
                 /\ Len(solves') = Len(solves) + 1
            /\ Tick => /\ springs'[s].value = springs[s].value
                       /\ springs'[s].calls = springs[s].calls]_vars

\* Spring s was started and stopped before it was ever updated, another
\* spring was started after it, and a tick has since updated that one alone.
C33_Witness ==
  \E s, t \in SpringIds, i, j \in 1..Len(solves) :
    /\ s # t /\ i < j
    /\ solves[i].spring = s /\ solves[j].spring = t
    /\ solves[i].step = 0 /\ i \notin driver.tickers
    /\ LastCall(s) = "stop"
    /\ solves[j].step = 1 /\ j \in driver.tickers
    /\ springs[t].calls = <<"start", "update">>

\* ----------------------------------------------------------- Ball, squished
\* The solves of the squish spring, oldest first.
SquishSolves == {id \in 1..Len(solves) : solves[id].spring = squish}
LastSquishSolve == CHOOSE id \in SquishSolves : \A o \in SquishSolves : o <= id

\* C35: didCollide(strength) starts the squish spring towards
\* remap(strength, 0, 1, 1, 0.8) with velocity remap(strength, 0, 1, -5, -10),
\* and the timer it schedules, when it fires, starts the spring again towards
\* 1 with that same velocity; at most one solve of the squish spring is
\* subscribed at any time, and once every timer has fired the spring's last
\* solve is the one towards 1, where the spring comes to rest.
C35_Squish ==
  /\ [][\A st \in CollisionStrengths :
          DidCollide(st) =>
            LET id == Len(solves')
                target == Hundredths(remap(st, Num(0), Num(1), Num(1),
                                           Frac(8, 10), TRUE))
                v == Hundredths(remap(st, Num(0), Num(1), Num(-5), Num(-10),
                                      TRUE))
            IN  /\ Len(solves') = Len(solves) + 1
                /\ solves'[id].spring = squish
                /\ solves'[id].to = target * SpringScale
                /\ solves'[id].speed = v * SpringScale
                /\ solves'[id].from = springs[squish].value * SpringScale
                /\ driver'.tickers = (driver.tickers \ Subscribed(squish)) \cup {id}
                /\ springs'[squish].targetValue = <<target>>
                /\ timers' = Append(timers, [velocity |-> v])]_vars
  /\ [][TimerFire =>
          LET id == Len(solves')
          IN  /\ Len(solves') = Len(solves) + 1
              /\ solves'[id].spring = squish
              /\ solves'[id].to = Unit * SpringScale
              /\ solves'[id].speed = timers[1].velocity * SpringScale
              /\ driver'.tickers = (driver.tickers \ Subscribed(squish)) \cup {id}
              /\ springs'[squish].targetValue = <<Unit>>
              /\ timers' = Tail(timers)]_vars
  /\ [](/\ Cardinality(Subscribed(squish)) <= 1
        /\ (timers = <<>> /\ SquishSolves # {}) =>
             /\ solves[LastSquishSolve].to = Unit * SpringScale
             /\ Subscribed(squish) \subseteq {LastSquishSolve}
             /\ springs[squish].targetValue \in {<<>>, <<Unit>>}
             /\ LastCall(squish) = "complete" =>
                  springs[squish].value = Unit)

\* The ball collided at full strength, the timer fired while the first solve
\* was running, and the second solve has come to rest at 1.
C35_Witness ==
  \E i, j \in SquishSolves :
    /\ i < j /\ j = LastSquishSolve
    /\ solves[i].to = 80 * SpringScale /\ solves[i].replaced
    /\ solves[i].speed = -1000 * SpringScale
    /\ solves[j].to = Unit * SpringScale /\ solves[j].step = solves[j].ticks
    /\ timers = <<>> /\ Idle(squish)
    /\ springs[squish].calls = <<"update", "complete">>
    /\ springs[squish].value = Unit

\* C36, as the spec states it: once the ball has been destroyed, a timer of
\* didCollide that fires starts no solve and subscribes no ticker.
C36_AsStated ==
  [][(TimerFire /\ ~balls[1].inScene /\ balls[1].physicsBody = <<>>) =>
       /\ solves' = solves
       /\ driver'.tickers = driver.tickers]_vars

\* ------------------------------------------------------------ Ball, dragged
\* The velocity the dragScale spring has: its solver's while a solve is
\* running, its tracker's at rest.
DragScaleSpeed ==
  IF Subscribed(dragScale) # {}
  THEN (CHOOSE id \in Subscribed(dragScale) : TRUE)
  ELSE 0
\* A step has started the dragScale spring towards target, from the value and
\* with the velocity it had.
DragScaleStarted(target) ==
  /\ Len(solves') = Len(solves) + 1
  /\ solves'[Len(solves')].spring = dragScale
  /\ solves'[Len(solves')].to = target * SpringScale
  /\ solves'[Len(solves')].from = springs[dragScale].value * SpringScale
  /\ Len(solves') \in driver'.tickers
  /\ solves'[Len(solves')].speed =
       IF DragScaleSpeed # 0 THEN solves[DragScaleSpeed].speed
       ELSE SpringScale * Hundredths(trackerVelocity(
                            trim(springs[dragScale].tracker, now'), now'))

\* C37, as the spec states it: a step of the controller that makes a
\* DragState active on the ball starts the dragScale spring towards 1.05, a
\* step that ends the drag starts it towards 1, each with the velocity the
\* spring has at that moment, and a step that keeps the drag active starts
\* no solve.
C37_AsStated ==
  [][ball # 0 =>
       /\ (Len(dragState) = 0 /\ Len(dragState') = 1) => DragScaleStarted(105)
       /\ (Len(dragState) = 1 /\ Len(dragState') = 0) => DragScaleStarted(Unit)
       /\ (Len(dragState) = 1 /\ Len(dragState') = 1) =>
            Len(solves') = Len(solves)]_vars

\* ------------------------------------------------------------- AppDelegate
\* C38, as the spec states it: ballVisible is true exactly when the view
\* controller holds a ball.
C38_AsStated == ballVisible <=> ball # 0

C40_AsStated == Len(dragState) = 1 => ball # 0
=============================================================================
